---- MODULE Spec2Model ----
(***************************************************************************)
(* AI Spec Forge: the workflow orchestrator and its building blocks.       *)
(*                                                                         *)
(*   SpecSM       the phase state machine (state-machine.ts)               *)
(*   SpecLimiter  the bounded fan-out (utils/concurrency.ts)               *)
(*   SpecRetry    the retry policy (utils/retry.ts)                        *)
(*   Spec         the orchestrator over a session directory                *)
(*                (orchestrator/index.ts, orchestrator/feedback.ts,        *)
(*                 storage/session.ts, storage/atomic-write.ts)            *)
(*                                                                         *)
(* The four specifications share one variable list; each one leaves the    *)
(* variables of the other components at their initial values.              *)
(***************************************************************************)
EXTENDS Integers, Sequences, FiniteSets, TLC

VARIABLES
  \* ---- StateMachine (also the orchestrator's machine)
  smState,       \* StateMachine._state
  smRound,       \* StateMachine._currentRound
  smListeners,   \* StateMachine.listeners: sequence of listener ids
  smCall,        \* the last call made on the machine: [op, from, to, ok]
  smNotified     \* the notifications that call delivered, in delivery order

smVars == <<smState, smRound, smListeners, smCall, smNotified>>

VARIABLES
  \* ---- runParallelWithErrors / ConcurrencyLimiter
  lmImpl,        \* which of the two runs the batch
  lmN,           \* number of tasks of the batch
  lmK,           \* the limit
  lmPc,          \* "init" | "running" | "returned"
  lmTask,        \* per task: "new" | "queued" | "running" | "ok" | "failed"
  lmStarts,      \* per task: how many times its fn was called
  lmResults,     \* the results array: per index, [of, tag]
  lmOut,         \* the list the batch returned
  lmIndex,       \* runParallelWithErrors: `index`; limiter: tasks submitted
  lmWorker,      \* runParallelWithErrors: per runNext chain, [pc, cur]
  lmRunning,     \* ConcurrencyLimiter.running
  lmQueue        \* ConcurrencyLimiter.queue (task ids)

lmVars == <<lmImpl, lmN, lmK, lmPc, lmTask, lmStarts, lmResults, lmOut,
            lmIndex, lmWorker, lmRunning, lmQueue>>

VARIABLES
  \* ---- withRetry
  rtOpts,        \* [maxRetries, maxDuration, shouldRetry]
  rtOp,          \* the operation: [fault, fails, always]
  rtPc,          \* "calling" | "sleeping" | "returned" | "raised"
  rtAttempt,     \* `attempt`
  rtCalls,       \* invocations of fn so far
  rtElapsed,     \* Date.now() - startTime, in ms
  rtDelay,       \* the delay being slept
  rtSleeps,      \* sleeps started so far
  rtLastError,   \* `lastError`: [fault, of] (of: the invocation that threw it)
  rtResult,      \* what withRetry returned or raised: [kind, fault, of]
  rtFits         \* every failure so far left room for its backoff delay

rtVars == <<rtOpts, rtOp, rtPc, rtAttempt, rtCalls, rtElapsed, rtDelay,
            rtSleeps, rtLastError, rtResult, rtFits>>

VARIABLES
  \* ---- Orchestrator
  orConfig,      \* this.config: [rounds], NoConfig for null
  orClient,      \* this.client is set
  orState,       \* this.state: SessionState
  orTranscript,  \* this.transcript: the roles of its two lists; NoTranscript
                 \* for null
  orAborted,     \* this.aborted
  orPc,          \* where the running operation stands; "idle" between calls
  orOp,          \* the running operation and its locals
  orWrite,       \* the atomicWrite the operation awaits: [file, content, next]
  orLast,        \* how the last operation ended: [op, outcome, why, failed]
  rv,            \* per consultant of the running round: its call
  rvNext,        \* runParallelWithErrors `index` of the running round
  cb,            \* per consultant: its onConsultantComplete chain
  \* ---- the session directory
  dConfig,       \* config.json
  dFiles,        \* committed files: path -> content
  dPartials,     \* `.partial` files: path -> content
  \* ---- history
  hCrashes,      \* how many times the process has died
  hResumed       \* what resume() loaded, until the next review run ends

orVars == <<orConfig, orClient, orState, orTranscript, orAborted, orPc, orOp,
            orWrite, orLast, rv, rvNext, cb, dConfig, dFiles, dPartials,
            hCrashes, hResumed>>

VARIABLES
  \* ---- atomicWrite calls on one path that overlap, and the file system
  awN,           \* how many atomicWrite calls are in flight on the path
  awPc,          \* per call: "mkdir" | "open" | "write" | "rename" | ...
  awFd,          \* per call: the inode its writeFile has opened
  awInode,       \* per inode: what the file holds, chunk by chunk
  awPartial,     \* the inode at `${filePath}.partial`
  awFinal,       \* the inode at filePath
  awAlive        \* the process is running

awVars == <<awN, awPc, awFd, awInode, awPartial, awFinal, awAlive>>

VARIABLES
  \* ---- parseClarificationResponse on one reply of the writer
  prContent,     \* content: the reply, token by token
  prOut          \* what the call returned or threw; NoOut before the call

prVars == <<prContent, prOut>>

VARIABLES
  \* ---- one review round over a consultant list that may repeat a model
  rdModels,      \* config.consultantModels, as configured
  rdCalls,       \* per position of the list: how its call stands
  rdSlots,       \* state.rounds[r].consultants: model -> status
  rdResult       \* how the round was treated: "running" until the join

rdVars == <<rdModels, rdCalls, rdSlots, rdResult>>

vars == <<smVars, lmVars, rtVars, orVars, awVars, prVars, rdVars>>

(***************************************************************************)
(*            Bounds, and each component's variables at rest               *)
(***************************************************************************)

\* Bounds of the batch
MaxTasks == 4
MaxLimit == 3

Min(a, b) == IF a < b THEN a ELSE b

Tasks == 1..MaxTasks
EmptyResult == [of |-> 0, tag |-> "empty"]
IdleWorker == [pc |-> "unused", cur |-> 0]

\* the limiter's variables while another component is being run
LimiterIdle ==
  /\ lmImpl = "none"
  /\ lmN = 0
  /\ lmK = 1
  /\ lmPc = "init"
  /\ lmTask = [i \in Tasks |-> "new"]
  /\ lmStarts = [i \in Tasks |-> 0]
  /\ lmResults = [i \in Tasks |-> EmptyResult]
  /\ lmOut = <<>>
  /\ lmIndex = 0
  /\ lmWorker = [w \in 1..MaxLimit |-> IdleWorker]
  /\ lmRunning = 0
  /\ lmQueue = <<>>

\* Bounds of the retried operation
MaxRetriesOpt == 5
MaxFails == 4
CallCap == 7

\* DEFAULT_OPTIONS and the numbers of calculateDelay
DefaultMaxRetries == 5
DefaultMaxDuration == 300000
DefaultBaseDelay == 1000
MaxDelay == 60000
RateLimitBaseDelay == 10000
JitterMax == 999

\* runPreflight's retry window
PreflightMaxDuration == 60000

\* how long one invocation of fn may take, and by how much a timer overshoots
OpDurations == {0, 45000}
SleepLags == {0, 1}
Jitters == {0, JitterMax}

NoFault == [fault |-> "none", of |-> 0]
NoResult == [kind |-> "none", fault |-> "none", of |-> 0]

\* the retry variables while another component is being run
RetryIdle ==
  /\ rtOpts = [maxRetries |-> DefaultMaxRetries,
               maxDuration |-> DefaultMaxDuration,
               shouldRetry |-> "default"]
  /\ rtOp = [fault |-> "none", fails |-> 0, always |-> FALSE]
  /\ rtPc = "returned"
  /\ rtAttempt = 0
  /\ rtCalls = 0
  /\ rtElapsed = 0
  /\ rtDelay = 0
  /\ rtSleeps = 0
  /\ rtLastError = NoFault
  /\ rtResult = NoResult
  /\ rtFits = TRUE

NoCall == [op |-> "none", from |-> "idle", to |-> "idle", ok |-> TRUE]

\* the machine's variables while another component is being run
SMIdle ==
  /\ smState = "idle"
  /\ smRound = 0
  /\ smListeners = <<>>
  /\ smCall = NoCall
  /\ smNotified = <<>>

\* Bounds of the session
NumConsultants == 2
MaxRounds == 2
MaxExchanges == 1
MaxRewrites == 2
MaxLagging == 1
MaxCrashes == 1

\* the highest round number a review run may take
RoundCap == 2

\* the listener the Orchestrator's constructor registers
OrListener == 1

\* config.specWriterModel, config.consultantModels; no model at all
SpecWriterModel == 0
ConsultantModels == [i \in 1..NumConsultants |-> i]
Models == 1..NumConsultants
NoModel == NumConsultants + 1

\* runFeedbackRound's default concurrencyLimit
ConsultantLimit == 5

\* createInitialState()
NoError == [step |-> "none", model |-> NoModel]
CreateInitialState ==
  [status |-> "idle", currentRound |-> 0, latestSpecVersion |-> 0,
   snapshotPath |-> FALSE, transcriptPath |-> FALSE, rounds |-> <<>>,
   error |-> NoError]

\* ConsultantCallState; initializeRoundState(config.consultantModels)
Slot(status, path) == [status |-> status, path |-> path]
InitializeRoundState ==
  [consultants |-> [m \in Models |-> Slot("pending", FALSE)],
   bundle |-> FALSE, revised |-> 0]

\* the paths of a session directory
StateFile == <<"state", 0, 0>>
TranscriptFile == <<"transcript", 0, 0>>
SnapshotFile == <<"snapshot", 0, 0>>
FinalFile == <<"final", 0, 0>>
SpecFile(v) == <<"spec", v, 0>>
ResponseFile(r, m) == <<"response", r, m>>
BundleFile(r) == <<"bundle", r, 0>>
Files ==
  {StateFile, TranscriptFile, SnapshotFile, FinalFile}
    \cup {SpecFile(v) : v \in 0..(RoundCap + 1)}
    \cup {ResponseFile(r, m) : r \in 1..RoundCap, m \in Models}
    \cup {BundleFile(r) : r \in 1..RoundCap}

\* What a file holds.  n = 0: no such file; for a text artifact n tells the
\* texts written to one path apart (the n-th text committed there); version
\* is the "Spec Version" line of a specification's header, 0 without one.
NoTranscript == [displayMessages |-> <<>>, apiMessages |-> <<>>]

\* createInitialTranscript(systemPrompt, appIdea): the roles of the messages
CreateInitialTranscript ==
  [displayMessages |-> <<>>, apiMessages |-> <<"system", "user">>]

\* addUserMessage(transcript, content): a new transcript
AddUserMessage(transcript) ==
  [displayMessages |-> Append(transcript.displayMessages, "user"),
   apiMessages |-> Append(transcript.apiMessages, "user")]

\* an addAssistantMessage that leaves the machine-facing list as it is
AddAssistantMessageDisplayOnly(transcript) ==
  [displayMessages |-> Append(transcript.displayMessages, "assistant"),
   apiMessages |-> transcript.apiMessages]

\* addAssistantMessage(transcript, content): a new transcript
AddAssistantMessage(transcript) ==
  [displayMessages |-> Append(transcript.displayMessages, "assistant"),
   apiMessages |-> Append(transcript.apiMessages, "assistant")]
Blob(n) ==
  [n |-> n, state |-> CreateInitialState, transcript |-> NoTranscript,
   version |-> 0]
Absent == Blob(0)
StateContent(st) == [Blob(1) EXCEPT !.state = st]
\* a saveTranscript that writes the transcript as it was before the exchange
TranscriptContentStale(t) == [Blob(1) EXCEPT !.transcript = orTranscript]
TranscriptContent(t) == [Blob(1) EXCEPT !.transcript = t]

NoConfig == [rounds |-> 0]
NoRevise ==
  [snapshot |-> 0, specVersion |-> 0, specText |-> 0, round |-> 0,
   feedbacks |-> <<>>, transcript |-> NoTranscript]
NoOp ==
  [name |-> "none", round |-> 0, verBefore |-> 0, newVersion |-> 0,
   pending |-> <<>>, issued |-> {}, failed |-> {}, pf |-> 0,
   ready |-> FALSE, reviseCalled |-> FALSE, cleaned |-> 0,
   order |-> <<>>, feedbacks |-> <<>>, snapshot |-> 0, specText |-> 0,
   revise |-> NoRevise, from |-> "none", withUser |-> NoTranscript]
NoWrite == [file |-> StateFile, content |-> Absent, next |-> "idle"]
NoResume == [active |-> FALSE, state |-> CreateInitialState]
NoLast == [op |-> NoOp, outcome |-> "none", why |-> "none", resumed |-> NoResume]
NoCallback == [pc |-> "none", round |-> 0, content |-> Absent]

\* new Orchestrator(), its machine apart, and no session directory
OrchIdle ==
  /\ orConfig = NoConfig
  /\ orClient = FALSE
  /\ orState = CreateInitialState
  /\ orTranscript = NoTranscript
  /\ orAborted = FALSE
  /\ orPc = "idle"
  /\ orOp = NoOp
  /\ orWrite = NoWrite
  /\ orLast = NoLast
  /\ rv = [m \in Models |-> "none"]
  /\ rvNext = 0
  /\ cb = [m \in Models |-> NoCallback]
  /\ dConfig = NoConfig
  /\ dFiles = [f \in Files |-> Absent]
  /\ dPartials = [f \in Files |-> Absent]
  /\ hCrashes = 0
  /\ hResumed = NoResume

(***************************************************************************)
(*        Bounded fan-out: runParallelWithErrors, ConcurrencyLimiter        *)
(***************************************************************************)

\* tasks whose fn was called and whose promise has not settled
Active == {i \in Tasks : lmTask[i] = "running"}
Settled == {i \in Tasks : lmTask[i] \in {"ok", "failed"}}

\* ---- runParallelWithErrors

\* a fan-out that starts every item at once
RPChainsUnbounded(limit, n) == n

\* `for (let i = 0; i < Math.min(limit, items.length); i++)`: chains started
RPChains(limit, n) == Min(limit, n)

\* a results array filled in completion order
RPResultIndexByCompletion(w) == Cardinality(Settled) + 1

\* `results[currentIndex] = ...`: the slot a chain writes for its task
RPResultIndex(w) == lmWorker[w].cur

\* a runNext without the try/catch: a rejected task ends its chain
RPContinuesOnSuccessOnly(outcome) == outcome = "ok"

\* runNext catches the task's rejection and goes on to `await runNext()`
RPContinues(outcome) == TRUE

\* the synchronous part of runParallelWithErrors: start the chains; each
\* takes `index++` and calls fn on its item
RPStart ==
  /\ lmImpl = "runParallelWithErrors"
  /\ lmPc = "init"
  /\ LET c == RPChains(lmK, lmN) IN
       /\ lmWorker' = [w \in DOMAIN lmWorker |->
                         IF w <= c THEN [pc |-> "await", cur |-> w]
                                   ELSE lmWorker[w]]
       /\ lmTask' = [i \in Tasks |-> IF i <= c THEN "running" ELSE lmTask[i]]
       /\ lmStarts' = [i \in Tasks |-> IF i <= c THEN lmStarts[i] + 1
                                                 ELSE lmStarts[i]]
       /\ lmIndex' = c
  /\ lmPc' = "running"
  /\ UNCHANGED <<lmImpl, lmN, lmK, lmResults, lmOut, lmRunning, lmQueue>>
  /\ UNCHANGED <<smVars, rtVars, orVars, awVars, prVars, rdVars>>

\* the task awaited by chain w settles; the chain records the outcome and
\* runs runNext again: `index++`, and either returns or calls fn on the item
RPTaskDone(w, outcome) ==
  /\ lmImpl = "runParallelWithErrors"
  /\ lmPc = "running"
  /\ w \in DOMAIN lmWorker
  /\ lmWorker[w].pc = "await"
  /\ LET cur == lmWorker[w].cur
         slot == RPResultIndex(w)
         nxt == lmIndex + 1
         goesOn == RPContinues(outcome) /\ nxt <= lmN
     IN
       /\ lmResults' = [lmResults EXCEPT
                          ![slot] = [of |-> cur,
                                     tag |-> IF outcome = "ok" THEN "success"
                                                               ELSE "failure"]]
       /\ lmIndex' = IF RPContinues(outcome) THEN nxt ELSE lmIndex
       /\ lmWorker' = [lmWorker EXCEPT
                         ![w] = IF goesOn THEN [pc |-> "await", cur |-> nxt]
                                          ELSE [pc |-> "done", cur |-> cur]]
       /\ lmTask' = [i \in Tasks |->
                       IF i = cur THEN outcome
                       ELSE IF goesOn /\ i = nxt THEN "running"
                       ELSE lmTask[i]]
       /\ lmStarts' = [i \in Tasks |->
                         IF goesOn /\ i = nxt THEN lmStarts[i] + 1
                                              ELSE lmStarts[i]]
  /\ UNCHANGED <<lmImpl, lmN, lmK, lmPc, lmOut, lmRunning, lmQueue>>
  /\ UNCHANGED <<smVars, rtVars, orVars, awVars, prVars, rdVars>>

\* `await Promise.all(executing); return results`
RPReturn ==
  /\ lmImpl = "runParallelWithErrors"
  /\ lmPc = "running"
  /\ \A w \in DOMAIN lmWorker : lmWorker[w].pc # "await"
  /\ lmPc' = "returned"
  /\ lmOut' = [i \in 1..lmN |-> lmResults[i]]
  /\ UNCHANGED <<lmImpl, lmN, lmK, lmTask, lmStarts, lmResults, lmIndex,
                 lmWorker, lmRunning, lmQueue>>
  /\ UNCHANGED <<smVars, rtVars, orVars, awVars, prVars, rdVars>>

\* ---- ConcurrencyLimiter

\* a processQueue whose test is `running <= limit`
CLToStartOffByOne(running, qlen, limit) ==
  IF running <= limit THEN Min(limit - running + 1, qlen) ELSE 0

\* processQueue: how many queued tasks the while loop shifts and runs
CLToStart(running, qlen, limit) ==
  IF running < limit THEN Min(limit - running, qlen) ELSE 0

\* the tail of a sequence after its first k elements
Drop(q, k) == SubSeq(q, k + 1, Len(q))
Firsts(q, k) == {q[j] : j \in 1..k}

\* execute(id, fn) of the next task of the batch (executeAll calls it for
\* each task in order): push, then processQueue; runTask does `running++`
\* and calls fn before its first await
CLExecute ==
  /\ lmImpl = "ConcurrencyLimiter"
  /\ lmPc \in {"init", "running"}
  /\ lmIndex < lmN
  /\ LET i == lmIndex + 1
         q == Append(lmQueue, i)
         k == CLToStart(lmRunning, Len(q), lmK)
     IN
       /\ lmQueue' = Drop(q, k)
       /\ lmRunning' = lmRunning + k
       /\ lmTask' = [j \in Tasks |->
                       IF j \in Firsts(q, k) THEN "running"
                       ELSE IF j = i THEN "queued"
                       ELSE lmTask[j]]
       /\ lmStarts' = [j \in Tasks |->
                         IF j \in Firsts(q, k) THEN lmStarts[j] + 1
                                               ELSE lmStarts[j]]
       /\ lmIndex' = i
  /\ lmPc' = "running"
  /\ UNCHANGED <<lmImpl, lmN, lmK, lmResults, lmOut, lmWorker>>
  /\ UNCHANGED <<smVars, rtVars, orVars, awVars, prVars, rdVars>>

\* runTask after `await task.fn()`: resolve or reject the task's promise
\* (executeAll's wrapper turns it into {id, result} or {id, error}), then
\* `finally { this.running--; this.processQueue(); }`
CLTaskDone(i, outcome) ==
  /\ lmImpl = "ConcurrencyLimiter"
  /\ lmPc = "running"
  /\ lmTask[i] = "running"
  /\ LET k == CLToStart(lmRunning - 1, Len(lmQueue), lmK) IN
       /\ lmQueue' = Drop(lmQueue, k)
       /\ lmRunning' = lmRunning - 1 + k
       /\ lmTask' = [j \in Tasks |->
                       IF j = i THEN outcome
                       ELSE IF j \in Firsts(lmQueue, k) THEN "running"
                       ELSE lmTask[j]]
       /\ lmStarts' = [j \in Tasks |->
                         IF j \in Firsts(lmQueue, k) THEN lmStarts[j] + 1
                                                     ELSE lmStarts[j]]
  /\ lmResults' = [lmResults EXCEPT
                     ![i] = [of |-> i,
                             tag |-> IF outcome = "ok" THEN "success"
                                                       ELSE "failure"]]
  /\ UNCHANGED <<lmImpl, lmN, lmK, lmPc, lmOut, lmIndex, lmWorker>>
  /\ UNCHANGED <<smVars, rtVars, orVars, awVars, prVars, rdVars>>

\* executeAll: `await Promise.all(tasks.map(...))` over the N wrappers
CLReturn ==
  /\ lmImpl = "ConcurrencyLimiter"
  /\ lmPc \in {"init", "running"}
  /\ lmIndex = lmN
  /\ \A i \in 1..lmN : lmResults[i].tag # "empty"
  /\ lmPc' = "returned"
  /\ lmOut' = [i \in 1..lmN |-> lmResults[i]]
  /\ UNCHANGED <<lmImpl, lmN, lmK, lmTask, lmStarts, lmResults, lmIndex,
                 lmWorker, lmRunning, lmQueue>>
  /\ UNCHANGED <<smVars, rtVars, orVars, awVars, prVars, rdVars>>

(***************************************************************************)
(*                        Phase state machine                              *)
(***************************************************************************)

\* SessionStatus
Phases ==
  {"idle", "preflight", "clarifying", "snapshotting", "drafting",
   "reviewing", "revising", "completed", "error"}

\* Bounds of the stand-alone machine
MaxListeners == 2
MaxSmRound == 2

\* VALID_TRANSITIONS: each entry has a set of sources and one target
VALID_TRANSITIONS ==
  << [from |-> {"idle"},         to |-> "preflight"],
     [from |-> {"preflight"},    to |-> "clarifying"],
     [from |-> {"clarifying"},   to |-> "snapshotting"],
     [from |-> {"snapshotting"}, to |-> "drafting"],
     [from |-> {"drafting"},     to |-> "reviewing"],
     [from |-> {"reviewing"},    to |-> "revising"],
     [from |-> {"revising"},     to |-> "reviewing"],
     [from |-> {"revising"},     to |-> "completed"],
     [from |-> {"idle"},         to |-> "clarifying"],
     [from |-> {"idle"},         to |-> "snapshotting"],
     [from |-> {"idle"},         to |-> "drafting"],
     [from |-> {"idle"},         to |-> "reviewing"],
     [from |-> {"idle"},         to |-> "revising"],
     [from |-> {"idle", "preflight", "clarifying", "snapshotting", "drafting",
                "reviewing", "revising"},
                                 to |-> "error"],
     [from |-> {"error"},        to |-> "idle"],
     [from |-> {"error"},        to |-> "preflight"],
     [from |-> {"error"},        to |-> "clarifying"],
     [from |-> {"error"},        to |-> "snapshotting"],
     [from |-> {"error"},        to |-> "drafting"],
     [from |-> {"error"},        to |-> "reviewing"],
     [from |-> {"error"},        to |-> "revising"] >>

\* A canTransition that lets every state fail over to error
CanTransitionAnyToError(from, to) ==
  \/ to = "error"
  \/ \E i \in 1..Len(VALID_TRANSITIONS) :
       from \in VALID_TRANSITIONS[i].from /\ VALID_TRANSITIONS[i].to = to

\* StateMachine.canTransition, for the machine in state `from`
CanTransition(from, to) ==
  \E i \in 1..Len(VALID_TRANSITIONS) :
    from \in VALID_TRANSITIONS[i].from /\ VALID_TRANSITIONS[i].to = to

\* the listeners loop of transition() and reset(): one call per registration
NotifyAll(listeners, from, to) ==
  [i \in 1..Len(listeners) |-> <<listeners[i], from, to>>]

\* a transition() that tells only the first listener
NotifyFirstOnly(listeners, from, to) ==
  IF listeners = <<>> THEN <<>> ELSE << <<listeners[1], from, to>> >>

\* StateMachine.transition(to), on the machine's own fields
Transition(to) ==
  /\ smCall' = [op |-> "transition", from |-> smState, to |-> to,
                ok |-> CanTransition(smState, to)]
  /\ IF CanTransition(smState, to)
       THEN /\ smState' = to
            /\ smNotified' = NotifyAll(smListeners, smState, to)
       ELSE \* throws 'Invalid transition from .. to ..'
            /\ smState' = smState
            /\ smNotified' = <<>>
  /\ UNCHANGED smListeners

\* StateMachine.transition(to), called on a machine of its own
SMTransition(to) ==
  /\ Transition(to)
  /\ UNCHANGED smRound
  /\ UNCHANGED <<lmVars, rtVars, orVars, awVars, prVars, rdVars>>

\* StateMachine.onStateChange(callback)
SMOnStateChange(l) ==
  /\ Len(smListeners) < MaxListeners
  /\ \A i \in 1..Len(smListeners) : smListeners[i] # l
  /\ smListeners' = Append(smListeners, l)
  /\ smCall' = [NoCall EXCEPT !.op = "onStateChange"]
  /\ smNotified' = <<>>
  /\ UNCHANGED <<smState, smRound>>
  /\ UNCHANGED <<lmVars, rtVars, orVars, awVars, prVars, rdVars>>

\* the unsubscribe closure returned by onStateChange
SMUnsubscribe(l) ==
  /\ \E i \in 1..Len(smListeners) : smListeners[i] = l
  /\ smListeners' = SelectSeq(smListeners, LAMBDA x : x # l)
  /\ smCall' = [NoCall EXCEPT !.op = "unsubscribe"]
  /\ smNotified' = <<>>
  /\ UNCHANGED <<smState, smRound>>
  /\ UNCHANGED <<lmVars, rtVars, orVars, awVars, prVars, rdVars>>

\* StateMachine.incrementRound()
SMIncrementRound ==
  /\ smRound < MaxSmRound
  /\ smRound' = smRound + 1
  /\ smCall' = [NoCall EXCEPT !.op = "incrementRound"]
  /\ smNotified' = <<>>
  /\ UNCHANGED <<smState, smListeners>>
  /\ UNCHANGED <<lmVars, rtVars, orVars, awVars, prVars, rdVars>>

\* StateMachine.reset()
SMReset ==
  /\ smState' = "idle"
  /\ smRound' = 0
  /\ smCall' = [op |-> "reset", from |-> smState, to |-> "idle", ok |-> TRUE]
  /\ smNotified' = NotifyAll(smListeners, smState, "idle")
  /\ UNCHANGED smListeners
  /\ UNCHANGED <<lmVars, rtVars, orVars, awVars, prVars, rdVars>>

(***************************************************************************)
(*                       Retry policy: withRetry                           *)
(***************************************************************************)

\* the fault classes an operation can raise: the classifiers look for
\* '429' / 'rate limit' / 'too many requests' (rateLimit) and for 'network',
\* 'timeout', 'econnreset', ... '502', '503', '504' (network) in the message
Faults == {"rateLimit", "network", "fatal"}

\* isRateLimitError
IsRateLimitError(f) == f = "rateLimit"

\* isTransientError
IsTransientError(f) == IsRateLimitError(f) \/ f = "network"

\* a retry test that never asks the caller's predicate
ShouldRetryDefaultOnly(opts, f) == IsTransientError(f)

\* `opts.shouldRetry ? opts.shouldRetry(lastError) : isTransientError(lastError)`
ShouldRetry(opts, f) ==
  CASE opts.shouldRetry = "default" -> IsTransientError(f)
    [] opts.shouldRetry = "all" -> TRUE
    [] opts.shouldRetry = "none" -> FALSE

Pow2(n) == IF n <= 0 THEN 1 ELSE 2 ^ n

\* a calculateDelay without the cap at maxDelay
CalculateDelayUncapped(attempt, isRateLimit, jitter) ==
  (IF isRateLimit THEN RateLimitBaseDelay ELSE DefaultBaseDelay)
    * Pow2(attempt - 1) + jitter

\* calculateDelay, with Math.random() * 1000 given as `jitter`
CalculateDelay(attempt, isRateLimit, jitter) ==
  Min((IF isRateLimit THEN RateLimitBaseDelay ELSE DefaultBaseDelay)
        * Pow2(attempt - 1), MaxDelay) + jitter

\* a retry loop that gives up one attempt early
RetriesExhaustedEarly(attempt, opts) == attempt + 1 >= opts.maxRetries

\* a retry loop that stops one attempt late
RetriesExhaustedLate(attempt, opts) == attempt > opts.maxRetries

\* `if (attempt >= opts.maxRetries)`
RetriesExhausted(attempt, opts) == attempt >= opts.maxRetries

\* a window test that lets the loop go on at the limit
WindowExceededNever(elapsed, opts) == FALSE

\* `if (elapsed >= opts.maxDuration)`
WindowExceeded(elapsed, opts) == elapsed >= opts.maxDuration

\* a delay test that never refuses
DelayTooLongNever(delay, elapsed, opts) == FALSE

\* `if (delay > remainingTime)`
DelayTooLong(delay, elapsed, opts) == delay > opts.maxDuration - elapsed

\* whether invocation n of the operation fails
OpFails(op, n) == op.always \/ n <= op.fails

\* one turn of the while loop: `attempt++`, `await fn()` (which takes d ms),
\* and on a fault the catch block up to its throw or its `await sleep(delay)`
RTAttempt(d, jitter) ==
  /\ rtPc = "calling"
  /\ rtCalls < CallCap
  /\ LET attempt == rtAttempt + 1
         n == rtCalls + 1
         elapsed == rtElapsed + d
         fault == rtOp.fault
         delay == CalculateDelay(attempt, IsRateLimitError(fault), jitter)
     IN
       /\ rtAttempt' = attempt
       /\ rtCalls' = n
       /\ rtElapsed' = elapsed
       /\ IF ~OpFails(rtOp, n)
            THEN \* `return await fn()`
                 /\ rtPc' = "returned"
                 /\ rtResult' = [kind |-> "value", fault |-> "none", of |-> n]
                 /\ UNCHANGED <<rtLastError, rtDelay, rtSleeps, rtFits>>
            ELSE /\ rtLastError' = [fault |-> fault, of |-> n]
                 /\ rtFits' = (rtFits /\ elapsed < rtOpts.maxDuration
                                      /\ elapsed + delay <= rtOpts.maxDuration)
                 /\ IF ~ShouldRetry(rtOpts, fault)
                      THEN \* `throw lastError`
                           /\ rtPc' = "raised"
                           /\ rtResult' = [kind |-> "fault", fault |-> fault,
                                           of |-> n]
                           /\ UNCHANGED <<rtDelay, rtSleeps>>
                    ELSE IF RetriesExhausted(attempt, rtOpts)
                      THEN \* 'Max retries (..) exceeded. Last error: ..'
                           /\ rtPc' = "raised"
                           /\ rtResult' = [kind |-> "maxRetries",
                                           fault |-> fault, of |-> n]
                           /\ UNCHANGED <<rtDelay, rtSleeps>>
                    ELSE IF WindowExceeded(elapsed, rtOpts)
                      THEN \* 'Retry window (..s) exceeded. Last error: ..'
                           /\ rtPc' = "raised"
                           /\ rtResult' = [kind |-> "window", fault |-> fault,
                                           of |-> n]
                           /\ UNCHANGED <<rtDelay, rtSleeps>>
                    ELSE IF DelayTooLong(delay, elapsed, rtOpts)
                      THEN \* 'Retry would exceed time limit. Last error: ..'
                           /\ rtPc' = "raised"
                           /\ rtResult' = [kind |-> "timeLimit",
                                           fault |-> fault, of |-> n]
                           /\ UNCHANGED <<rtDelay, rtSleeps>>
                      ELSE \* onRetry, then `await sleep(delay)`
                           /\ rtPc' = "sleeping"
                           /\ rtDelay' = delay
                           /\ rtSleeps' = rtSleeps + 1
                           /\ UNCHANGED rtResult
  /\ UNCHANGED <<rtOpts, rtOp>>
  /\ UNCHANGED <<smVars, lmVars, orVars, awVars, prVars, rdVars>>

\* sleep(delay) resolves: the timer fires `lag` ms late
RTWake(lag) ==
  /\ rtPc = "sleeping"
  /\ rtElapsed' = rtElapsed + rtDelay + lag
  /\ rtPc' = "calling"
  /\ UNCHANGED <<rtOpts, rtOp, rtAttempt, rtCalls, rtDelay, rtSleeps,
                 rtLastError, rtResult, rtFits>>
  /\ UNCHANGED <<smVars, lmVars, orVars, awVars, prVars, rdVars>>

(***************************************************************************)
(*                             Orchestrator                                *)
(*                                                                         *)
(* One caller drives one Orchestrator in the workflow's order, one call at *)
(* a time; it may call abort() while an operation runs, and the process    *)
(* may die at any moment; a new process initializes or resumes a session.  *)
(* An operation advances one await at a time.                              *)
(* The onConsultantComplete chains of a review run are not awaited by      *)
(* anyone and advance on their own: at most MaxLagging of them are still   *)
(* pending when the round's Promise.all resolves, and none when the        *)
(* writer's revise call returns or the caller makes its next call.         *)
(* appendSessionLogEvent, emit and the session log are left out.           *)
(***************************************************************************)

\* Bounds of the overlapping writes
MaxWriters == 2

\* the calls, the inodes (0: the file that is at filePath to begin with;
\* w: the one call w's open creates), and no inode
Writers == 1..MaxWriters
Inodes == 0..MaxWriters
NoInode == MaxWriters + 1

\* what a file holds: the content committed before (one chunk), and the
\* content call w writes (w chunks, so that the contents differ in length)
Previous == <<0>>
Data(w) == [i \in 1..w |-> w]

\* no atomicWrite is being looked at
WriteIdle ==
  /\ awN = 0
  /\ awPc = [w \in Writers |-> "unused"]
  /\ awFd = [w \in Writers |-> NoInode]
  /\ awInode = [i \in Inodes |-> <<>>]
  /\ awPartial = NoInode
  /\ awFinal = NoInode
  /\ awAlive = TRUE

\* no reply, and parseClarificationResponse not called
NoOut == [tag |-> "none", ready |-> FALSE, message |-> "none"]
ParseIdle ==
  /\ prContent = <<>>
  /\ prOut = NoOut

\* Bounds of the consultant list of a round that may repeat a model
MaxListed == 3
MaxModelIds == 2
ModelIds == 1..MaxModelIds

\* no round
RoundIdle ==
  /\ rdModels = <<>>
  /\ rdCalls = <<>>
  /\ rdSlots = [m \in ModelIds |-> "none"]
  /\ rdResult = "running"

orMem == <<orConfig, orClient, orState, orTranscript, orAborted>>
orRound == <<rv, rvNext, cb>>
orDisk == <<dConfig, dFiles, dPartials, hCrashes>>

\* a checkAborted() that never throws
CheckAbortedNever == FALSE

\* checkAborted() throws
CheckAborted == orAborted

\* `!this.config || !this.client` is false
Ready == orConfig # NoConfig /\ orClient

\* the onConsultantComplete chains that are pending; none is
Lagging == {m \in Models : cb[m].pc \notin {"none", "done", "failed"}}
Quiet == Lagging = {}

\* The top-level driver: the operation the workflow order prescribes for the
\* phase that currentState shows (runFullWorkflow's order, a clarification
\* exchange, the retry of a failed preflight or round, a new draft after a
\* failed round, the round of a resumed session, one more round asked of a
\* completed session, a draft or a round asked for after any failure or
\* before the snapshot is there); nothing more once
\* it has called abort().  A call on an Orchestrator that has no session
\* raises at once and is always open.
Prescribed(name) ==
  \/ ~Ready
  \/ /\ ~orAborted
     /\ CASE name = "runPreflight" ->
               \/ orState.status = "idle"
               \/ orState.status = "error" /\ orState.error.step = "preflight"
          [] name = "startClarification" ->
               orState.status = "preflight"
          [] name = "sendClarificationResponse" ->
               orState.status = "clarifying" /\ orTranscript # NoTranscript
          [] name = "generateSnapshot" ->
               orState.status = "clarifying" /\ orTranscript # NoTranscript
          [] name = "generateDraft" ->
               orState.status \in {"snapshotting", "error"}
          [] name = "runFeedbackRound" ->
               \/ orState.status = "drafting" /\ orState.latestSpecVersion >= 1
               \/ orState.status \in {"reviewing", "revising", "error"}
               \/ orState.status = "completed"

\* the caller makes its next call: no operation is running and no chain is
\* pending; what the last operation left behind is out of scope
Called ==
  /\ orPc = "idle"
  /\ Quiet
  /\ cb' = [m \in Models |-> NoCallback]
  /\ UNCHANGED <<rv, rvNext>>

\* the constructor's listener, when the machine has it: this.state.status = to
Listened(st, to) ==
  IF \E i \in 1..Len(smListeners) : smListeners[i] = OrListener
    THEN [st EXCEPT !.status = to]
    ELSE st

\* the text an artifact path gets next
NewBlob(f) == Blob(Min(dFiles[f].n + 1, MaxRewrites))

\* saveSpecVersion(sessionDir, version, ..): the header names the version
SaveSpecVersion(version) ==
  [NewBlob(SpecFile(version)) EXCEPT !.version = version]

\* a loadRequirementsSnapshot that returns a text when there is no file
LoadRequirementsSnapshotDefault ==
  IF dFiles[SnapshotFile] = Absent THEN Blob(1) ELSE dFiles[SnapshotFile]

\* loadRequirementsSnapshot(sessionDir): null when there is no file
LoadRequirementsSnapshot == dFiles[SnapshotFile]

\* a copyFinalSpec that reads the version before the one it is given
CopyFinalSpecPrevious(version) == dFiles[SpecFile(version - 1)]

\* copyFinalSpec(sessionDir, version): what safeReadFile(sourcePath) returns
CopyFinalSpec(version) == dFiles[SpecFile(version)]

\* the operation's promise settles (its generator ends)
Settle(op, outcome, why) ==
  /\ orPc' = "idle"
  /\ orOp' = NoOp
  /\ orLast' = [op |-> op, outcome |-> outcome, why |-> why,
                resumed |-> IF op.name = "runFeedbackRound"
                              THEN hResumed ELSE NoResume]
  /\ hResumed' = IF op.name = "runFeedbackRound" THEN NoResume ELSE hResumed

\* the operation throws
Raise(op, why) ==
  /\ Settle(op, "raised", why)
  /\ UNCHANGED orWrite

\* the operation calls atomicWrite(file, content) and awaits it
Await(file, content, next) ==
  /\ orPc' = "write"
  /\ orWrite' = [file |-> file, content |-> content, next |-> next]

\* await this.persistState(): saveState takes JSON.stringify(state) at the call
PersistState(st, next) == Await(StateFile, StateContent(st), next)

\* this.stateMachine.transition(to); await this.persistState()
\* (st: this.state as the operation has left it so far)
Enter(op, st, to, next) ==
  /\ Transition(to)
  /\ IF CanTransition(smState, to)
       THEN /\ orState' = Listened(st, to)
            /\ orOp' = op
            /\ PersistState(Listened(st, to), next)
            /\ orLast' = NoLast
            /\ UNCHANGED hResumed
       ELSE /\ orState' = st
            /\ Raise(op, "invalidTransition")

\* this.stateMachine.transition('error'); this.state.error = {..};
\* await this.persistState()
Fail(op, step, model, next) ==
  /\ Transition("error")
  /\ IF CanTransition(smState, "error")
       THEN LET st == [Listened(orState, "error")
                         EXCEPT !.error = [step |-> step, model |-> model]]
            IN /\ orState' = st
               /\ orOp' = op
               /\ PersistState(st, next)
               /\ UNCHANGED <<orLast, hResumed>>
       ELSE /\ orState' = orState
            /\ Raise(op, "invalidTransition")

\* ---- atomicWrite, as awaited by the running operation

\* fs.writeFile(`${filePath}.partial`, content)
AtomicWritePartial ==
  /\ orPc = "write"
  /\ dPartials' = [dPartials EXCEPT ![orWrite.file] = orWrite.content]
  /\ orPc' = "rename"
  /\ UNCHANGED <<orMem, orOp, orWrite, orLast, orRound, dConfig, hCrashes, dFiles,
                 hResumed>>
  /\ UNCHANGED <<smVars, lmVars, rtVars, awVars, prVars, rdVars>>

\* fs.rename(partialPath, filePath)
AtomicWriteRename ==
  /\ orPc = "rename"
  /\ IF dPartials[orWrite.file] = Absent
       THEN \* ENOENT
            /\ Settle(orOp, "raised", "storage")
            /\ orWrite' = NoWrite
            /\ UNCHANGED <<dFiles, dPartials>>
       ELSE /\ dFiles' = [dFiles EXCEPT ![orWrite.file] = dPartials[orWrite.file]]
            /\ dPartials' = [dPartials EXCEPT ![orWrite.file] = Absent]
            /\ orPc' = orWrite.next
            /\ orWrite' = NoWrite
            /\ UNCHANGED <<orOp, orLast, hResumed>>
  /\ UNCHANGED <<orMem, orRound, dConfig, hCrashes>>
  /\ UNCHANGED <<smVars, lmVars, rtVars, awVars, prVars, rdVars>>

\* ---- initialize, resume, abort, and the death of the process

\* initialize(config, apiKey), up to initializeSession's saveState;
\* createSessionDirectory makes a directory of its own
Initialize(R) ==
  /\ Called
  /\ orConfig = NoConfig
  /\ orConfig' = [rounds |-> R]
  /\ orClient' = TRUE
  /\ orAborted' = FALSE
  /\ dConfig' = [rounds |-> R]
  /\ dFiles' = [f \in Files |-> Absent]
  /\ dPartials' = [f \in Files |-> Absent]
  /\ orOp' = [NoOp EXCEPT !.name = "initialize"]
  /\ Await(StateFile, StateContent(CreateInitialState), "initialized")
  /\ orLast' = NoLast
  /\ UNCHANGED <<orState, orTranscript, hCrashes, hResumed>>
  /\ UNCHANGED <<smVars, lmVars, rtVars, awVars, prVars, rdVars>>

\* initialize: this.state = createInitialState(), and return
Initialized ==
  /\ orPc = "initialized"
  /\ orState' = CreateInitialState
  /\ Settle(orOp, "ok", "none")
  /\ UNCHANGED <<orConfig, orClient, orTranscript, orAborted, orWrite,
                 orRound, orDisk>>
  /\ UNCHANGED <<smVars, lmVars, rtVars, awVars, prVars, rdVars>>

\* a constructor that takes its defaults whatever it is given
NewStateMachineDefault(initialState, currentRound) ==
  [state |-> "idle", round |-> 0]

\* new StateMachine(initialState, currentRound, totalRounds)
NewStateMachine(initialState, currentRound) ==
  [state |-> initialState, round |-> currentRound]

\* a cleanPartialFiles that does not go into the feedback directory
CleanPartialFilesTopOnly(partials) ==
  [f \in Files |-> IF f[1] \in {"response", "bundle"} THEN partials[f]
                   ELSE Absent]

\* cleanPartialFiles(sessionDir): the `.partial` files that are left
CleanPartialFiles(partials) == [f \in Files |-> Absent]

\* resume(sessionDir, apiKey), on the directory of the last initialize
Resume ==
  /\ Called
  /\ orConfig = NoConfig
  /\ dConfig # NoConfig
  /\ dPartials' = CleanPartialFiles(dPartials)
  /\ orConfig' = dConfig
  /\ orPc' = "idle"
  /\ orOp' = NoOp
  /\ IF dFiles[StateFile] = Absent
       THEN \* 'Could not load session state'
            /\ orLast' = [NoLast EXCEPT !.op.name = "resume", !.outcome = "raised",
                                        !.why = "noState",
                                        !.op.cleaned = Cardinality(
                                          {f \in Files : dPartials[f] # Absent})]
            /\ UNCHANGED <<orClient, orState, orTranscript, orAborted,
                           hResumed, smVars>>
       ELSE LET state == dFiles[StateFile].state IN
            /\ orState' = state
            /\ orTranscript' = IF dFiles[TranscriptFile] = Absent
                                 THEN orTranscript
                                 ELSE dFiles[TranscriptFile].transcript
            /\ orClient' = TRUE
            /\ smState' = NewStateMachine(state.status, state.currentRound).state
            /\ smRound' = NewStateMachine(state.status, state.currentRound).round
            /\ smListeners' = <<>>
            /\ smCall' = [op |-> "new", from |-> state.status,
                          to |-> state.status, ok |-> TRUE]
            /\ smNotified' = <<>>
            /\ orAborted' = FALSE
            /\ hResumed' = [active |-> TRUE, state |-> state]
            /\ orLast' = [NoLast EXCEPT !.op.name = "resume", !.outcome = "ok",
                                        !.op.cleaned = Cardinality(
                                          {f \in Files : dPartials[f] # Absent})]
  /\ UNCHANGED <<orWrite, dConfig, hCrashes, dFiles>>
  /\ UNCHANGED <<lmVars, rtVars, awVars, prVars, rdVars>>

\* abort()
Abort ==
  /\ orPc # "idle"
  /\ ~orAborted
  /\ orAborted' = TRUE
  /\ UNCHANGED <<orConfig, orClient, orState, orTranscript, orPc, orOp,
                 orWrite, orLast, orRound, orDisk, hResumed>>
  /\ UNCHANGED <<smVars, lmVars, rtVars, awVars, prVars, rdVars>>

\* the process dies and a new Orchestrator is constructed: the directory
\* stays as it is, partial files included
Crash ==
  /\ dConfig # NoConfig
  /\ hCrashes < MaxCrashes
  /\ hCrashes' = hCrashes + 1
  /\ orConfig' = NoConfig
  /\ orClient' = FALSE
  /\ orState' = CreateInitialState
  /\ orTranscript' = NoTranscript
  /\ orAborted' = FALSE
  /\ orPc' = "idle"
  /\ orOp' = NoOp
  /\ orWrite' = NoWrite
  /\ orLast' = [NoLast EXCEPT !.outcome = "crashed"]
  /\ rv' = [m \in Models |-> "none"]
  /\ rvNext' = 0
  /\ cb' = [m \in Models |-> NoCallback]
  /\ hResumed' = NoResume
  /\ smState' = "idle"
  /\ smRound' = 0
  /\ smListeners' = <<OrListener>>
  /\ smCall' = NoCall
  /\ smNotified' = <<>>
  /\ UNCHANGED <<dConfig, dFiles, dPartials>>
  /\ UNCHANGED <<lmVars, rtVars, awVars, prVars, rdVars>>

\* ---- runPreflight

\* [...new Set([specWriterModel, ...consultantModels])]
UniqueModels == <<SpecWriterModel>> \o ConsultantModels

\* runPreflight(), up to the first persistState
RunPreflight ==
  /\ Called
  /\ Prescribed("runPreflight")
  /\ LET op == [NoOp EXCEPT !.name = "runPreflight"] IN
     IF ~Ready
       THEN /\ Raise(op, "notInitialized")
            /\ UNCHANGED <<orState, smVars>>
       ELSE /\ Enter(op, orState, "preflight", "pf_loop")
            /\ UNCHANGED smRound
  /\ UNCHANGED <<orConfig, orClient, orTranscript, orAborted, orDisk>>
  /\ UNCHANGED <<lmVars, rtVars, awVars, prVars, rdVars>>

\* one turn of the loop over uniqueModels: checkAborted, then the
\* reachability test under withRetry, then the catch block
PreflightModel(reachable) ==
  /\ orPc = "pf_loop"
  /\ orOp.pf < Len(UniqueModels)
  /\ IF CheckAborted
       THEN /\ Raise(orOp, "aborted")
            /\ UNCHANGED <<orState, smVars>>
       ELSE IF reachable
         THEN /\ orOp' = [orOp EXCEPT !.pf = @ + 1]
              /\ UNCHANGED <<orPc, orWrite, orLast, hResumed, orState, smVars>>
         ELSE /\ Fail(orOp, "preflight", UniqueModels[orOp.pf + 1], "pf_failed")
              /\ UNCHANGED smRound
  /\ UNCHANGED <<orConfig, orClient, orTranscript, orAborted, orRound, orDisk>>
  /\ UNCHANGED <<lmVars, rtVars, awVars, prVars, rdVars>>

\* return { success: true, results }
PreflightPassed ==
  /\ orPc = "pf_loop"
  /\ orOp.pf = Len(UniqueModels)
  /\ Settle(orOp, "ok", "none")
  /\ UNCHANGED <<orMem, orWrite, orRound, orDisk>>
  /\ UNCHANGED <<smVars, lmVars, rtVars, awVars, prVars, rdVars>>

\* return { success: false, results }
PreflightFailed ==
  /\ orPc = "pf_failed"
  /\ Settle(orOp, "failed", "unreachable")
  /\ UNCHANGED <<orMem, orWrite, orRound, orDisk>>
  /\ UNCHANGED <<smVars, lmVars, rtVars, awVars, prVars, rdVars>>

\* ---- the streamed phases: clarification, snapshot, draft

StreamPcs == {"sc_stream", "cr_stream", "gs_stream", "gd_stream"}

\* client.chatStream throws
StreamFails ==
  /\ orPc \in StreamPcs
  /\ Raise(orOp, "gateway")
  /\ UNCHANGED <<orMem, orRound, orDisk>>
  /\ UNCHANGED <<smVars, lmVars, rtVars, awVars, prVars, rdVars>>

\* a token chunk arrives after abort(): checkAborted throws
StreamToken ==
  /\ orPc \in StreamPcs
  /\ CheckAborted
  /\ Raise(orOp, "aborted")
  /\ UNCHANGED <<orMem, orRound, orDisk>>
  /\ UNCHANGED <<smVars, lmVars, rtVars, awVars, prVars, rdVars>>

\* startClarification(), up to the first persistState
StartClarification ==
  /\ Called
  /\ Prescribed("startClarification")
  /\ LET op == [NoOp EXCEPT !.name = "startClarification"] IN
     IF ~Ready
       THEN /\ Raise(op, "notInitialized")
            /\ UNCHANGED <<orState, smVars>>
       ELSE /\ Enter(op, orState, "clarifying", "sc_stream")
            /\ UNCHANGED smRound
  /\ UNCHANGED <<orConfig, orClient, orTranscript, orAborted, orDisk>>
  /\ UNCHANGED <<lmVars, rtVars, awVars, prVars, rdVars>>

\* the stream ends: parseClarificationResponse, the 'complete' chunk,
\* checkAborted, this.transcript = chunk.transcript, saveTranscript
ClarificationComplete(reply) ==
  /\ orPc \in {"sc_stream", "cr_stream"}
  /\ IF reply = "invalid"
       THEN /\ Raise(orOp, "invalidReply")
            /\ UNCHANGED orTranscript
       ELSE IF CheckAborted
         THEN /\ Raise(orOp, "aborted")
              /\ UNCHANGED orTranscript
         ELSE LET t == IF orPc = "sc_stream"
                         THEN AddAssistantMessage(CreateInitialTranscript)
                         ELSE AddAssistantMessage(orOp.withUser)
              IN /\ orTranscript' = t
                 /\ orOp' = [orOp EXCEPT !.ready = (reply = "ready")]
                 /\ Await(TranscriptFile, TranscriptContent(t),
                          IF orPc = "sc_stream" THEN "sc_saved" ELSE "done")
                 /\ UNCHANGED <<orLast, hResumed>>
  /\ UNCHANGED <<orConfig, orClient, orState, orAborted, orRound, orDisk>>
  /\ UNCHANGED <<smVars, lmVars, rtVars, awVars, prVars, rdVars>>

\* startClarification: clarificationTranscriptPath is set, persistState
TranscriptSaved ==
  /\ orPc = "sc_saved"
  /\ orState' = [orState EXCEPT !.transcriptPath = TRUE]
  /\ PersistState(orState', "done")
  /\ UNCHANGED <<orConfig, orClient, orTranscript, orAborted, orOp, orLast,
                 orRound, orDisk, hResumed>>
  /\ UNCHANGED <<smVars, lmVars, rtVars, awVars, prVars, rdVars>>

\* sendClarificationResponse(userResponse), up to the stream
SendClarificationResponse ==
  /\ Called
  /\ Prescribed("sendClarificationResponse")
  /\ Len(orTranscript.displayMessages) < 1 + 2 * MaxExchanges
  /\ LET op == [NoOp EXCEPT !.name = "sendClarificationResponse"] IN
     IF ~Ready \/ orTranscript = NoTranscript
       THEN Raise(op, "notClarifying")
       ELSE \* continueClarificationStream: withUser
            /\ orPc' = "cr_stream"
            /\ orOp' = [op EXCEPT !.withUser = AddUserMessage(orTranscript)]
            /\ orLast' = NoLast
            /\ UNCHANGED <<orWrite, hResumed>>
  /\ UNCHANGED <<orMem, orDisk>>
  /\ UNCHANGED <<smVars, lmVars, rtVars, awVars, prVars, rdVars>>

\* generateSnapshot(), up to the first persistState
GenerateSnapshot ==
  /\ Called
  /\ Prescribed("generateSnapshot")
  /\ LET op == [NoOp EXCEPT !.name = "generateSnapshot"] IN
     IF ~Ready \/ orTranscript = NoTranscript
       THEN /\ Raise(op, "notClarified")
            /\ UNCHANGED <<orState, smVars>>
       ELSE /\ Enter(op, orState, "snapshotting", "gs_stream")
            /\ UNCHANGED smRound
  /\ UNCHANGED <<orConfig, orClient, orTranscript, orAborted, orDisk>>
  /\ UNCHANGED <<lmVars, rtVars, awVars, prVars, rdVars>>

\* generateSnapshot: the 'complete' chunk, saveRequirementsSnapshot
SnapshotComplete ==
  /\ orPc = "gs_stream"
  /\ IF CheckAborted
       THEN Raise(orOp, "aborted")
       ELSE /\ Await(SnapshotFile, NewBlob(SnapshotFile), "gs_saved")
            /\ UNCHANGED <<orOp, orLast, hResumed>>
  /\ UNCHANGED <<orMem, orRound, orDisk>>
  /\ UNCHANGED <<smVars, lmVars, rtVars, awVars, prVars, rdVars>>

\* generateSnapshot: requirementsSnapshotPath is set, persistState
SnapshotSaved ==
  /\ orPc = "gs_saved"
  /\ orState' = [orState EXCEPT !.snapshotPath = TRUE]
  /\ PersistState(orState', "done")
  /\ UNCHANGED <<orConfig, orClient, orTranscript, orAborted, orOp, orLast,
                 orRound, orDisk, hResumed>>
  /\ UNCHANGED <<smVars, lmVars, rtVars, awVars, prVars, rdVars>>

\* generateDraft(), up to the first persistState
GenerateDraft ==
  /\ Called
  /\ Prescribed("generateDraft")
  /\ LET op == [NoOp EXCEPT !.name = "generateDraft"] IN
     IF ~Ready \/ orTranscript = NoTranscript
       THEN /\ Raise(op, "notClarified")
            /\ UNCHANGED <<orState, smVars>>
       ELSE IF LoadRequirementsSnapshot = Absent
         THEN /\ Raise(op, "noSnapshot")
              /\ UNCHANGED <<orState, smVars>>
         ELSE /\ Enter(op, orState, "drafting", "gd_stream")
              /\ UNCHANGED smRound
  /\ UNCHANGED <<orConfig, orClient, orTranscript, orAborted, orDisk>>
  /\ UNCHANGED <<lmVars, rtVars, awVars, prVars, rdVars>>

\* generateDraft: the 'complete' chunk, saveSpecVersion(1)
DraftComplete ==
  /\ orPc = "gd_stream"
  /\ IF CheckAborted
       THEN Raise(orOp, "aborted")
       ELSE /\ Await(SpecFile(1), SaveSpecVersion(1), "gd_saved")
            /\ UNCHANGED <<orOp, orLast, hResumed>>
  /\ UNCHANGED <<orMem, orRound, orDisk>>
  /\ UNCHANGED <<smVars, lmVars, rtVars, awVars, prVars, rdVars>>

\* generateDraft: latestSpecVersion = 1, persistState
DraftSaved ==
  /\ orPc = "gd_saved"
  /\ orState' = [orState EXCEPT !.latestSpecVersion = 1]
  /\ PersistState(orState', "done")
  /\ UNCHANGED <<orConfig, orClient, orTranscript, orAborted, orOp, orLast,
                 orRound, orDisk, hResumed>>
  /\ UNCHANGED <<smVars, lmVars, rtVars, awVars, prVars, rdVars>>

\* the last await of an operation is over: it returns
Return ==
  /\ orPc = "done"
  /\ Settle(orOp, "ok", "none")
  /\ UNCHANGED <<orMem, orWrite, orRound, orDisk>>
  /\ UNCHANGED <<smVars, lmVars, rtVars, awVars, prVars, rdVars>>

\* ---- runFeedbackRound, generateRevision, completeSession

\* runFeedbackRound(), up to the first persistState
RunFeedbackRound ==
  /\ Called
  /\ Prescribed("runFeedbackRound")
  /\ orState.currentRound < RoundCap
  /\ LET roundNumber == orState.currentRound + 1
         op == [NoOp EXCEPT !.name = "runFeedbackRound",
                            !.round = roundNumber,
                            !.verBefore = orState.latestSpecVersion,
                            !.from = orState.status,
                            !.snapshot = LoadRequirementsSnapshot.n,
                            !.specText =
                              dFiles[SpecFile(orState.latestSpecVersion)].n]
         st == [orState EXCEPT
                  !.rounds = IF Len(@) < roundNumber
                               THEN Append(@, InitializeRoundState) ELSE @,
                  !.currentRound = roundNumber]
     IN IF ~Ready
          THEN /\ Raise(op, "notInitialized")
               /\ UNCHANGED <<orState, smVars>>
          ELSE IF LoadRequirementsSnapshot = Absent
            THEN /\ Raise(op, "noSnapshot")
                 /\ UNCHANGED <<orState, smVars>>
            ELSE IF dFiles[SpecFile(orState.latestSpecVersion)] = Absent
              THEN /\ Raise(op, "noSpec")
                   /\ UNCHANGED <<orState, smVars>>
              ELSE /\ smRound' = roundNumber
                   /\ Enter(op, st, "reviewing", "rf_start")
  /\ UNCHANGED <<orConfig, orClient, orTranscript, orAborted, orDisk>>
  /\ UNCHANGED <<lmVars, rtVars, awVars, prVars, rdVars>>

\* a result list in the order the calls ended
FeedbacksByCompletion(pending, order) == order

\* feedbacks: results[i] is the outcome of consultantModels[i], whatever the
\* order in which the calls ended (the models, as the list names them)
Feedbacks(pending, order) == [i \in 1..Len(pending) |-> pending[i]]

\* pendingModels, and runParallelWithErrors starting its first chains
StartConsultants ==
  /\ orPc = "rf_start"
  /\ LET r == orOp.round
         pending == SelectSeq(ConsultantModels,
                      LAMBDA m : orState.rounds[r].consultants[m].status = "pending")
         c == RPChains(ConsultantLimit, Len(pending))
     IN /\ orOp' = [orOp EXCEPT !.pending = pending,
                                !.issued = {<<r, pending[i]>> : i \in 1..c}]
        /\ rv' = [m \in Models |->
                    IF \E i \in 1..c : pending[i] = m THEN "inflight"
                    ELSE IF \E i \in 1..Len(pending) : pending[i] = m
                      THEN "queued" ELSE "none"]
        /\ rvNext' = c
  /\ orPc' = "rf_wait"
  /\ UNCHANGED <<orMem, orWrite, orLast, cb, orDisk, hResumed>>
  /\ UNCHANGED <<smVars, lmVars, rtVars, awVars, prVars, rdVars>>

\* one consultant's call under withRetry ends; onConsultantComplete is
\* called and runs to its first await; the chain takes its next task
ConsultantDone(m, outcome) ==
  /\ orPc = "rf_wait"
  /\ rv[m] = "inflight"
  /\ LET r == orOp.round
         st == [orState EXCEPT !.rounds[r].consultants[m] =
                  Slot(IF outcome = "success" THEN "complete" ELSE "error",
                       FALSE)]
         more == rvNext < Len(orOp.pending)
         nxt == IF more THEN orOp.pending[rvNext + 1] ELSE NoModel
     IN /\ orState' = st
        /\ cb' = [cb EXCEPT ![m] =
                    IF outcome = "success"
                      THEN [pc |-> "responseWrite", round |-> r,
                            content |-> NewBlob(ResponseFile(r, m))]
                      ELSE [pc |-> "stateWrite", round |-> r,
                            content |-> StateContent(st)]]
        /\ rv' = [x \in Models |->
                    IF x = m THEN outcome
                    ELSE IF x = nxt THEN "inflight" ELSE rv[x]]
        /\ rvNext' = IF more THEN rvNext + 1 ELSE rvNext
        /\ orOp' = [orOp EXCEPT !.issued = IF more THEN @ \cup {<<r, nxt>>} ELSE @,
                                !.order = Append(@, m)]
  /\ UNCHANGED <<orConfig, orClient, orTranscript, orAborted, orPc, orWrite,
                 orLast, orDisk, hResumed>>
  /\ UNCHANGED <<smVars, lmVars, rtVars, awVars, prVars, rdVars>>

\* onConsultantComplete: saveConsultantResponse writes the partial file
ResponseWrite(m) ==
  /\ cb[m].pc = "responseWrite"
  /\ dPartials' = [dPartials EXCEPT ![ResponseFile(cb[m].round, m)] = cb[m].content]
  /\ cb' = [cb EXCEPT ![m].pc = "responseRename"]
  /\ UNCHANGED <<orMem, orPc, orOp, orWrite, orLast, rv, rvNext, dConfig, hCrashes,
                 dFiles, hResumed>>
  /\ UNCHANGED <<smVars, lmVars, rtVars, awVars, prVars, rdVars>>

\* onConsultantComplete: saveConsultantResponse renames; the slot's path is
\* set; persistState is called
ResponseRename(m) ==
  /\ cb[m].pc = "responseRename"
  /\ LET f == ResponseFile(cb[m].round, m)
         st == [orState EXCEPT !.rounds[cb[m].round].consultants[m].path = TRUE]
     IN IF dPartials[f] = Absent
          THEN /\ cb' = [cb EXCEPT ![m] = [NoCallback EXCEPT !.pc = "failed"]]
               /\ UNCHANGED <<orState, dFiles, dPartials>>
          ELSE /\ dFiles' = [dFiles EXCEPT ![f] = dPartials[f]]
               /\ dPartials' = [dPartials EXCEPT ![f] = Absent]
               /\ orState' = st
               /\ cb' = [cb EXCEPT ![m] = [pc |-> "stateWrite",
                                           round |-> cb[m].round,
                                           content |-> StateContent(st)]]
  /\ UNCHANGED <<orConfig, orClient, orTranscript, orAborted, orPc, orOp,
                 orWrite, orLast, rv, rvNext, dConfig, hCrashes, hResumed>>
  /\ UNCHANGED <<smVars, lmVars, rtVars, awVars, prVars, rdVars>>

\* onConsultantComplete: persistState writes state.json.partial
CallbackStateWrite(m) ==
  /\ cb[m].pc = "stateWrite"
  /\ dPartials' = [dPartials EXCEPT ![StateFile] = cb[m].content]
  /\ cb' = [cb EXCEPT ![m].pc = "stateRename"]
  /\ UNCHANGED <<orMem, orPc, orOp, orWrite, orLast, rv, rvNext, dConfig, hCrashes,
                 dFiles, hResumed>>
  /\ UNCHANGED <<smVars, lmVars, rtVars, awVars, prVars, rdVars>>

\* onConsultantComplete: persistState renames state.json.partial
CallbackStateRename(m) ==
  /\ cb[m].pc = "stateRename"
  /\ IF dPartials[StateFile] = Absent
       THEN \* ENOENT, a rejection nobody handles
            /\ cb' = [cb EXCEPT ![m] = [NoCallback EXCEPT !.pc = "failed"]]
            /\ UNCHANGED <<dFiles, dPartials>>
       ELSE /\ dFiles' = [dFiles EXCEPT ![StateFile] = dPartials[StateFile]]
            /\ dPartials' = [dPartials EXCEPT ![StateFile] = Absent]
            /\ cb' = [cb EXCEPT ![m] = [NoCallback EXCEPT !.pc = "done"]]
  /\ UNCHANGED <<orMem, orPc, orOp, orWrite, orLast, rv, rvNext, dConfig, hCrashes,
                 hResumed>>
  /\ UNCHANGED <<smVars, lmVars, rtVars, awVars, prVars, rdVars>>

\* Promise.all(workers) resolves: checkAborted, then result.hasErrors
ConsultantsSettled ==
  /\ orPc = "rf_wait"
  /\ \A m \in Models : rv[m] \in {"none", "success", "error"}
  /\ Cardinality(Lagging) <= MaxLagging
  /\ LET failed == {m \in Models : rv[m] = "error"}
         done == [orOp EXCEPT !.failed = failed,
                              !.feedbacks = Feedbacks(orOp.pending, orOp.order)]
         op == [done EXCEPT !.order = <<>>]
     IN IF CheckAborted
          THEN /\ Raise(op, "aborted")
               /\ UNCHANGED <<orState, smVars>>
          ELSE IF failed # {}
            THEN /\ Fail(op, "reviewing", NoModel, "rf_failed")
                 /\ UNCHANGED smRound
            ELSE /\ orOp' = done
                 /\ Await(BundleFile(orOp.round), NewBlob(BundleFile(orOp.round)),
                          "rf_bundled")
                 /\ UNCHANGED <<orState, orLast, hResumed, smVars>>
  /\ rv' = [m \in Models |-> "none"]
  /\ rvNext' = 0
  /\ UNCHANGED <<orConfig, orClient, orTranscript, orAborted, cb, orDisk>>
  /\ UNCHANGED <<lmVars, rtVars, awVars, prVars, rdVars>>

\* throw new Error(errorMessage)
RoundFailed ==
  /\ orPc = "rf_failed"
  /\ Raise(orOp, "roundFailed")
  /\ UNCHANGED <<orMem, orRound, orDisk>>
  /\ UNCHANGED <<smVars, lmVars, rtVars, awVars, prVars, rdVars>>

\* feedbackBundlePath is set, persistState
BundleSaved ==
  /\ orPc = "rf_bundled"
  /\ orState' = [orState EXCEPT !.rounds[orOp.round].bundle = TRUE]
  /\ PersistState(orState', "rv_enter")
  /\ orOp' = [orOp EXCEPT !.order = <<>>]
  /\ UNCHANGED <<orConfig, orClient, orTranscript, orAborted, orLast,
                 orRound, orDisk, hResumed>>
  /\ UNCHANGED <<smVars, lmVars, rtVars, awVars, prVars, rdVars>>

\* generateRevision(), up to its first persistState
GenerateRevision ==
  /\ orPc = "rv_enter"
  /\ Enter(orOp, orState, "revising", "rv_call")
  /\ UNCHANGED smRound
  /\ UNCHANGED <<orConfig, orClient, orTranscript, orAborted, orRound, orDisk>>
  /\ UNCHANGED <<lmVars, rtVars, awVars, prVars, rdVars>>

\* a revise call that is also given the clarification transcript
ReviseInputsWithTranscript(op) ==
  [snapshot |-> op.snapshot, specVersion |-> op.verBefore,
   specText |-> op.specText, round |-> op.round, feedbacks |-> op.feedbacks,
   transcript |-> orTranscript]

\* what generateRevision puts in the writer's message: the snapshot and the
\* spec that runFeedbackRound loaded, and result.aggregatedFeedback
ReviseInputs(op) ==
  [snapshot |-> op.snapshot, specVersion |-> op.verBefore,
   specText |-> op.specText, round |-> op.round, feedbacks |-> op.feedbacks,
   transcript |-> NoTranscript]

\* the writer's revise call under withRetry ends; checkAborted;
\* saveSpecVersion(newVersion)
ReviseDone(ok) ==
  /\ orPc = "rv_call"
  /\ Quiet
  /\ LET newVersion == orState.latestSpecVersion + 1
         op == [orOp EXCEPT !.reviseCalled = TRUE, !.newVersion = newVersion,
                            !.revise = ReviseInputs(orOp)]
     IN IF ~ok
          THEN Raise(op, "gateway")
          ELSE IF CheckAborted
            THEN Raise(op, "aborted")
            ELSE /\ orOp' = op
                 /\ Await(SpecFile(newVersion), SaveSpecVersion(newVersion),
                          "rv_saved")
                 /\ UNCHANGED <<orLast, hResumed>>
  /\ UNCHANGED <<orMem, orRound, orDisk>>
  /\ UNCHANGED <<smVars, lmVars, rtVars, awVars, prVars, rdVars>>

\* latestSpecVersion and revisedSpecPath are set, persistState
RevisionSaved ==
  /\ orPc = "rv_saved"
  /\ orState' = [orState EXCEPT !.latestSpecVersion = orOp.newVersion,
                                !.rounds[orOp.round].revised = orOp.newVersion]
  /\ PersistState(orState', "rv_persisted")
  /\ UNCHANGED <<orConfig, orClient, orTranscript, orAborted, orOp, orLast,
                 orRound, orDisk, hResumed>>
  /\ UNCHANGED <<smVars, lmVars, rtVars, awVars, prVars, rdVars>>

\* `roundNumber >= numberOfRounds`: completeSession's copyFinalSpec, or return
RevisionPersisted ==
  /\ orPc = "rv_persisted"
  /\ IF orOp.round >= orConfig.rounds
       THEN /\ IF CopyFinalSpec(orState.latestSpecVersion) = Absent
                 THEN orPc' = "cs_copied" /\ UNCHANGED orWrite
                 ELSE Await(FinalFile, CopyFinalSpec(orState.latestSpecVersion),
                            "cs_copied")
            /\ UNCHANGED <<orOp, orLast, hResumed>>
       ELSE /\ Settle(orOp, "ok", "none")
            /\ UNCHANGED orWrite
  /\ UNCHANGED <<orMem, orRound, orDisk>>
  /\ UNCHANGED <<smVars, lmVars, rtVars, awVars, prVars, rdVars>>

\* completeSession: transition('completed'), persistState
CompleteSession ==
  /\ orPc = "cs_copied"
  /\ Enter(orOp, orState, "completed", "done")
  /\ UNCHANGED smRound
  /\ UNCHANGED <<orConfig, orClient, orTranscript, orAborted, orRound, orDisk>>
  /\ UNCHANGED <<lmVars, rtVars, awVars, prVars, rdVars>>

(***************************************************************************)
(*               atomicWrite calls that overlap on one path                *)
(*                                                                         *)
(* persistState is called by chains that nobody serialises (the running    *)
(* operation and each onConsultantComplete), so several atomicWrite calls  *)
(* on state.json are in flight together, all through state.json.partial.   *)
(* fs.writeFile is open (create or truncate), write, close; a file that is *)
(* renamed or unlinked stays writable through the descriptors open on it.  *)
(* The process may die; resume() then unlinks the partial file.            *)
(***************************************************************************)

\* the contents a completed atomicWrite leaves, and the one from before
Complete == {Previous} \cup {Data(w) : w \in Writers}

\* writing `data` at offset 0 of a file that holds `old`
WriteAt0(old, data) ==
  IF Len(data) >= Len(old) THEN data
  ELSE data \o SubSeq(old, Len(data) + 1, Len(old))

\* `await fs.mkdir(dir, { recursive: true })`
AWMkdir(w) ==
  /\ awAlive
  /\ awPc[w] = "mkdir"
  /\ awPc' = [awPc EXCEPT ![w] = "open"]
  /\ UNCHANGED <<awN, awFd, awInode, awPartial, awFinal, awAlive>>
  /\ UNCHANGED <<smVars, lmVars, rtVars, orVars, prVars, rdVars>>

\* fs.writeFile(partialPath, ..): open with flag 'w'
AWOpen(w) ==
  /\ awAlive
  /\ awPc[w] = "open"
  /\ LET inode == IF awPartial = NoInode THEN w ELSE awPartial IN
     /\ awInode' = [awInode EXCEPT ![inode] = <<>>]
     /\ awPartial' = inode
     /\ awFd' = [awFd EXCEPT ![w] = inode]
  /\ awPc' = [awPc EXCEPT ![w] = "write"]
  /\ UNCHANGED <<awN, awFinal, awAlive>>
  /\ UNCHANGED <<smVars, lmVars, rtVars, orVars, prVars, rdVars>>

\* fs.writeFile(partialPath, content): write the content, close
AWWrite(w) ==
  /\ awAlive
  /\ awPc[w] = "write"
  /\ awInode' = [awInode EXCEPT ![awFd[w]] = WriteAt0(@, Data(w))]
  /\ awPc' = [awPc EXCEPT ![w] = "rename"]
  /\ UNCHANGED <<awN, awFd, awPartial, awFinal, awAlive>>
  /\ UNCHANGED <<smVars, lmVars, rtVars, orVars, prVars, rdVars>>

\* `await fs.rename(partialPath, filePath)`
AWRename(w) ==
  /\ awAlive
  /\ awPc[w] = "rename"
  /\ IF awPartial = NoInode
       THEN \* ENOENT
            /\ awPc' = [awPc EXCEPT ![w] = "failed"]
            /\ UNCHANGED <<awPartial, awFinal>>
       ELSE /\ awFinal' = awPartial
            /\ awPartial' = NoInode
            /\ awPc' = [awPc EXCEPT ![w] = "done"]
  /\ UNCHANGED <<awN, awFd, awInode, awAlive>>
  /\ UNCHANGED <<smVars, lmVars, rtVars, orVars, prVars, rdVars>>

\* the process dies while a call is in flight
AWCrash ==
  /\ awAlive
  /\ \E w \in Writers : awPc[w] \in {"mkdir", "open", "write", "rename"}
  /\ awAlive' = FALSE
  /\ awPc' = [w \in Writers |->
                IF awPc[w] \in {"unused", "done", "failed"} THEN awPc[w]
                ELSE "dead"]
  /\ UNCHANGED <<awN, awFd, awInode, awPartial, awFinal>>
  /\ UNCHANGED <<smVars, lmVars, rtVars, orVars, prVars, rdVars>>

\* resume() in a new process: cleanPartialFiles unlinks the partial file
AWResume ==
  /\ ~awAlive
  /\ awPc' = [w \in Writers |-> IF awPc[w] = "dead" THEN "cleaned" ELSE awPc[w]]
  /\ \E w \in Writers : awPc[w] = "dead"
  /\ awPartial' = NoInode
  /\ UNCHANGED <<awN, awFd, awInode, awFinal, awAlive>>
  /\ UNCHANGED <<smVars, lmVars, rtVars, orVars, prVars, rdVars>>

(***************************************************************************)
(*          parseClarificationResponse on a reply of the writer            *)
(*                                                                         *)
(* A reply is a sequence of tokens: the fence of three backticks, the word  *)
(* json in either letter case, another info string, a space, a newline,    *)
(* prose, and one JSON value.  A JSON value is told by what the validation *)
(* looks at: its kind, and for an object its ready and message fields.     *)
(***************************************************************************)

Tok(k) == [k |-> k, ready |-> "-", message |-> "-"]
Obj(ready, message) == [k |-> "object", ready |-> ready, message |-> message]

\* ready: true, false, the string "true", no such field
ReadyFields == {"true", "false", "string", "absent"}
\* message: text, text with spaces around it, spaces only, "", a number,
\* no such field
MessageFields == {"text", "padded", "blank", "empty", "number", "absent"}

Payloads ==
  {Obj(r, m) : r \in ReadyFields, m \in MessageFields}
    \cup {Tok("null"), Tok("number"), Tok("array"), Tok("truncated")}

\* what may stand before and after the JSON value
Prefixes ==
  {<<>>,
   <<Tok("fence")>>,
   <<Tok("fence"), Tok("nl")>>,
   <<Tok("fence"), Tok("json"), Tok("nl")>>,
   <<Tok("fence"), Tok("JSON"), Tok("nl")>>,
   <<Tok("fence"), Tok("json")>>,
   <<Tok("fence"), Tok("tag"), Tok("nl")>>,
   <<Tok("ws"), Tok("fence"), Tok("json"), Tok("nl")>>,
   <<Tok("prose"), Tok("nl"), Tok("fence"), Tok("json"), Tok("nl")>>}
Suffixes ==
  {<<>>,
   <<Tok("fence")>>,
   <<Tok("nl"), Tok("fence")>>,
   <<Tok("nl"), Tok("fence"), Tok("nl")>>,
   <<Tok("nl"), Tok("fence"), Tok("nl"), Tok("prose")>>}

\* \s
IsSpace(t) == t.k \in {"ws", "nl"}

\* String.prototype.trim
RECURSIVE TrimStart(_)
TrimStart(s) ==
  IF s # <<>> /\ IsSpace(s[1]) THEN TrimStart(Tail(s)) ELSE s
RECURSIVE TrimEnd(_)
TrimEnd(s) ==
  IF s # <<>> /\ IsSpace(s[Len(s)])
    THEN TrimEnd(SubSeq(s, 1, Len(s) - 1)) ELSE s
Trim(s) == TrimEnd(TrimStart(s))

\* cleaned.replace(start-of-text fence, optional json, white space): the
\* first regular expression of stripMarkdownCodeBlocks, flag i
StripFenceStart(s) ==
  IF s # <<>> /\ s[1].k = "fence"
    THEN LET r == Tail(s)
             t == IF r # <<>> /\ r[1].k \in {"json", "JSON"} THEN Tail(r) ELSE r
         IN TrimStart(t)
    ELSE s

\* cleaned.replace(optional newline, fence, white space, end-of-text): the
\* second regular expression
StripFenceEnd(s) ==
  LET body == TrimEnd(s)
      j == Len(body)
  IN IF j > 0 /\ body[j].k = "fence"
       THEN IF j > 1 /\ body[j - 1].k = "nl"
              THEN SubSeq(s, 1, j - 2) ELSE SubSeq(s, 1, j - 1)
       ELSE s

\* stripMarkdownCodeBlocks(content)
StripMarkdownCodeBlocks(content) ==
  Trim(StripFenceEnd(StripFenceStart(Trim(content))))

\* JSON.parse: the text is one JSON value, white space around it allowed
JsonValues == {"object", "null", "number", "array"}
JsonParses(s) == Len(Trim(s)) = 1 /\ Trim(s)[1].k \in JsonValues

Raised(why) == [tag |-> "raised", ready |-> FALSE, message |-> why]

\* a validation that takes a missing ready for false
ValidateLenient(parsed) ==
  IF parsed.k = "null" THEN Raised("TypeError")
  ELSE IF parsed.message \notin {"text", "padded"} THEN Raised("message")
  ELSE [tag |-> "ok", ready |-> parsed.ready = "true", message |-> "text"]

\* the checks on parsed, and the value returned
Validate(parsed) ==
  IF parsed.k = "null" THEN Raised("TypeError")
  ELSE IF parsed.ready \notin {"true", "false"} THEN Raised("ready")
  ELSE IF parsed.message \notin {"text", "padded"} THEN Raised("message")
  ELSE [tag |-> "ok", ready |-> parsed.ready = "true", message |-> "text"]

\* parseClarificationResponse(content)
ParseClarificationResponse(content) ==
  LET cleanedContent == StripMarkdownCodeBlocks(content)
  IN IF ~JsonParses(cleanedContent)
       THEN Raised("SyntaxError")
       ELSE Validate(Trim(cleanedContent)[1])

\* the generator calls parseClarificationResponse(fullResponse)
ParseReply ==
  /\ prOut = NoOut
  /\ prOut' = ParseClarificationResponse(prContent)
  /\ UNCHANGED prContent
  /\ UNCHANGED <<smVars, lmVars, rtVars, orVars, awVars, rdVars>>

\* the caller has the result; the next reply is parsed from scratch
ParseReturn ==
  /\ prOut # NoOut
  /\ prOut.tag = "ok"
  /\ prOut' = NoOut
  /\ prContent' = <<>>
  /\ UNCHANGED <<smVars, lmVars, rtVars, orVars, awVars, rdVars>>

(***************************************************************************)
(*     One review round, by position of the configured consultant list     *)
(*                                                                         *)
(* The calls of a round are made per entry of the list; the slots of the   *)
(* round are kept per model id.  validateConfig bounds the length of the   *)
(* list and does not ask its entries to differ.                            *)
(***************************************************************************)

\* initializeRoundState(consultantModels): one slot per model id named
InitializeSlots(models) ==
  [m \in ModelIds |-> IF \E i \in 1..Len(models) : models[i] = m
                        THEN "pending" ELSE "none"]

\* isRoundComplete(roundState), hasRoundError(roundState)
IsRoundComplete(slots) == \A m \in ModelIds : slots[m] \in {"none", "complete"}
HasRoundError(slots) == \E m \in ModelIds : slots[m] = "error"

\* result.hasErrors: feedbacks.some(f => f.status === 'error')
HasErrors(calls) == \E i \in 1..Len(calls) : calls[i] = "error"

\* pendingModels, and runParallelWithErrors starting a chain per entry (the
\* list is no longer than the concurrency limit of 5)
RDStart ==
  /\ rdResult = "running"
  /\ rdCalls = <<>>
  /\ rdCalls' = [i \in 1..Len(rdModels) |->
                   IF rdSlots[rdModels[i]] = "pending" THEN "inflight"
                   ELSE "skipped"]
  /\ UNCHANGED <<rdModels, rdSlots, rdResult>>
  /\ UNCHANGED <<smVars, lmVars, rtVars, orVars, awVars, prVars>>

\* the call of entry i ends; onConsultantComplete sets the slot of its model
RDConsultantDone(i, outcome) ==
  /\ rdResult = "running"
  /\ i \in 1..Len(rdCalls)
  /\ rdCalls[i] = "inflight"
  /\ rdCalls' = [rdCalls EXCEPT ![i] = outcome]
  /\ rdSlots' = [rdSlots EXCEPT ![rdModels[i]] =
                   IF outcome = "success" THEN "complete" ELSE "error"]
  /\ UNCHANGED <<rdModels, rdResult>>
  /\ UNCHANGED <<smVars, lmVars, rtVars, orVars, awVars, prVars>>

\* Promise.all(workers) resolves: `if (result.hasErrors)` fails the round,
\* otherwise the bundle is saved and generateRevision is called
RDSettled ==
  /\ rdResult = "running"
  /\ rdCalls # <<>>
  /\ \A i \in 1..Len(rdCalls) : rdCalls[i] # "inflight"
  /\ rdResult' = IF HasErrors(rdCalls) THEN "failed" ELSE "succeeded"
  /\ UNCHANGED <<rdModels, rdCalls, rdSlots>>
  /\ UNCHANGED <<smVars, lmVars, rtVars, orVars, awVars, prVars>>

(***************************************************************************)
(*                          Specifications                                 *)
(***************************************************************************)

\* new StateMachine(initialState, currentRound, totalRounds)
InitSM ==
  /\ smState \in Phases
  /\ smRound \in 0..MaxSmRound
  /\ smListeners = <<>>
  /\ smCall = NoCall
  /\ smNotified = <<>>
  /\ LimiterIdle
  /\ RetryIdle
  /\ OrchIdle
  /\ WriteIdle
  /\ ParseIdle
  /\ RoundIdle

NextSM ==
  \/ \E to \in Phases : SMTransition(to)
  \/ \E l \in 1..MaxListeners : SMOnStateChange(l)
  \/ \E l \in 1..MaxListeners : SMUnsubscribe(l)
  \/ SMIncrementRound
  \/ SMReset

SpecSM == InitSM /\ [][NextSM]_vars


\* a batch of N tasks handed to one of the two, with limit K >= 1
InitLimiter ==
  /\ lmImpl \in {"runParallelWithErrors", "ConcurrencyLimiter"}
  /\ lmN \in 0..MaxTasks
  /\ lmK \in 1..MaxLimit
  /\ lmPc = "init"
  /\ lmTask = [i \in Tasks |-> "new"]
  /\ lmStarts = [i \in Tasks |-> 0]
  /\ lmResults = [i \in Tasks |-> EmptyResult]
  /\ lmOut = <<>>
  /\ lmIndex = 0
  /\ lmWorker = [w \in 1..MaxLimit |-> IdleWorker]
  /\ lmRunning = 0
  /\ lmQueue = <<>>
  /\ SMIdle
  /\ RetryIdle
  /\ OrchIdle
  /\ WriteIdle
  /\ ParseIdle
  /\ RoundIdle

NextLimiter ==
  \/ RPStart
  \/ \E w \in 1..MaxLimit, o \in {"ok", "failed"} : RPTaskDone(w, o)
  \/ RPReturn
  \/ CLExecute
  \/ \E i \in Tasks, o \in {"ok", "failed"} : CLTaskDone(i, o)
  \/ CLReturn

SpecLimiter == InitLimiter /\ [][NextLimiter]_vars

\* withRetry(fn, options) is called: options as the callers give them, and an
\* operation that fails on its first `fails` invocations, or on every one
InitRetry ==
  /\ rtOpts \in [maxRetries : 1..MaxRetriesOpt,
                 maxDuration : {PreflightMaxDuration, DefaultMaxDuration},
                 shouldRetry : {"default", "all", "none"}]
  /\ rtOp \in [fault : Faults, fails : 0..MaxFails, always : BOOLEAN]
  /\ rtPc = "calling"
  /\ rtAttempt = 0
  /\ rtCalls = 0
  /\ rtElapsed = 0
  /\ rtDelay = 0
  /\ rtSleeps = 0
  /\ rtLastError = NoFault
  /\ rtResult = NoResult
  /\ rtFits = TRUE
  /\ SMIdle
  /\ LimiterIdle
  /\ OrchIdle
  /\ WriteIdle
  /\ ParseIdle
  /\ RoundIdle

NextRetry ==
  \/ \E d \in OpDurations, j \in Jitters : RTAttempt(d, j)
  \/ \E lag \in SleepLags : RTWake(lag)

\* the event loop runs every continuation and timer that is ready
SpecRetry == InitRetry /\ [][NextRetry]_vars /\ WF_vars(NextRetry)

\* a session directory whose state.json is there or not yet, and one or
\* more persistState calls started
InitWrite ==
  /\ awN \in 1..MaxWriters
  /\ awPc = [w \in Writers |-> IF w <= awN THEN "mkdir" ELSE "unused"]
  /\ awFd = [w \in Writers |-> NoInode]
  /\ awFinal \in {NoInode, 0}
  /\ awInode = [i \in Inodes |-> IF i = 0 /\ awFinal = 0 THEN Previous ELSE <<>>]
  /\ awPartial = NoInode
  /\ awAlive = TRUE
  /\ SMIdle
  /\ LimiterIdle
  /\ RetryIdle
  /\ OrchIdle
  /\ ParseIdle
  /\ RoundIdle

NextWrite ==
  \/ \E w \in Writers : AWMkdir(w)
  \/ \E w \in Writers : AWOpen(w)
  \/ \E w \in Writers : AWWrite(w)
  \/ \E w \in Writers : AWRename(w)
  \/ AWCrash
  \/ AWResume

SpecWrite == InitWrite /\ [][NextWrite]_vars

\* a reply of the writer, complete, and parseClarificationResponse not called
InitParse ==
  /\ prContent \in {pre \o <<p>> \o suf :
                      pre \in Prefixes, p \in Payloads, suf \in Suffixes}
  /\ prOut = NoOut
  /\ SMIdle
  /\ LimiterIdle
  /\ RetryIdle
  /\ OrchIdle
  /\ WriteIdle
  /\ RoundIdle

NextParse ==
  \/ ParseReply
  \/ ParseReturn

SpecParse == InitParse /\ [][NextParse]_vars

\* a round is entered: rounds[roundNumber] = initializeRoundState(list)
InitRound ==
  /\ rdModels \in UNION {[1..n -> ModelIds] : n \in 1..MaxListed}
  /\ rdCalls = <<>>
  /\ rdSlots = InitializeSlots(rdModels)
  /\ rdResult = "running"
  /\ SMIdle
  /\ LimiterIdle
  /\ RetryIdle
  /\ OrchIdle
  /\ WriteIdle
  /\ ParseIdle

NextRound ==
  \/ RDStart
  \/ \E i \in 1..MaxListed, outcome \in {"success", "error"} :
       RDConsultantDone(i, outcome)
  \/ RDSettled

SpecRound == InitRound /\ [][NextRound]_vars

\* new Orchestrator(), and no session directory yet
Init ==
  /\ smState = "idle"
  /\ smRound = 0
  /\ smListeners = <<OrListener>>
  /\ smCall = NoCall
  /\ smNotified = <<>>
  /\ LimiterIdle
  /\ RetryIdle
  /\ OrchIdle
  /\ WriteIdle
  /\ ParseIdle
  /\ RoundIdle

Next ==
  \/ \E R \in 1..MaxRounds : Initialize(R)
  \/ Initialized
  \/ Resume
  \/ Abort
  \/ Crash
  \/ AtomicWritePartial
  \/ AtomicWriteRename
  \/ RunPreflight
  \/ \E reachable \in BOOLEAN : PreflightModel(reachable)
  \/ PreflightPassed
  \/ PreflightFailed
  \/ StreamFails
  \/ StreamToken
  \/ StartClarification
  \/ \E reply \in {"invalid", "question", "ready"} : ClarificationComplete(reply)
  \/ TranscriptSaved
  \/ SendClarificationResponse
  \/ GenerateSnapshot
  \/ SnapshotComplete
  \/ SnapshotSaved
  \/ GenerateDraft
  \/ DraftComplete
  \/ DraftSaved
  \/ Return
  \/ RunFeedbackRound
  \/ StartConsultants
  \/ \E m \in Models, outcome \in {"success", "error"} : ConsultantDone(m, outcome)
  \/ \E m \in Models : ResponseWrite(m)
  \/ \E m \in Models : ResponseRename(m)
  \/ \E m \in Models : CallbackStateWrite(m)
  \/ \E m \in Models : CallbackStateRename(m)
  \/ ConsultantsSettled
  \/ RoundFailed
  \/ BundleSaved
  \/ GenerateRevision
  \/ \E ok \in BOOLEAN : ReviseDone(ok)
  \/ RevisionSaved
  \/ RevisionPersisted
  \/ CompleteSession

Spec == Init /\ [][Next]_vars

\* runFullWorkflow() on a new session, with no abort and no death of the
\* process, every model reachable, every call of the gateway successful and
\* the writer ready at its first reply.  The driver goes on to its next call
\* only when the call before has returned (an exception ends it), and calls
\* runFeedbackRound config.numberOfRounds times.
FullWorkflowGoesOn == orLast.outcome = "ok"

MainFull ==
  \/ \E R \in 1..MaxRounds : Initialize(R)
  \/ Initialized
  \/ AtomicWritePartial
  \/ AtomicWriteRename
  \/ FullWorkflowGoesOn /\ RunPreflight
  \/ PreflightModel(TRUE)
  \/ PreflightPassed
  \/ FullWorkflowGoesOn /\ StartClarification
  \/ ClarificationComplete("ready")
  \/ TranscriptSaved
  \/ FullWorkflowGoesOn /\ orLast.op.ready /\ GenerateSnapshot
  \/ SnapshotComplete
  \/ SnapshotSaved
  \/ FullWorkflowGoesOn /\ GenerateDraft
  \/ DraftComplete
  \/ DraftSaved
  \/ Return
  \/ FullWorkflowGoesOn /\ orState.currentRound < orConfig.rounds
       /\ RunFeedbackRound
  \/ StartConsultants
  \/ \E m \in Models : ConsultantDone(m, "success")
  \/ ConsultantsSettled
  \/ BundleSaved
  \/ GenerateRevision
  \/ ReviseDone(TRUE)
  \/ RevisionSaved
  \/ RevisionPersisted
  \/ CompleteSession

\* the onConsultantComplete chain of consultant m
CallbackFull(m) ==
  \/ ResponseWrite(m)
  \/ ResponseRename(m)
  \/ CallbackStateWrite(m)
  \/ CallbackStateRename(m)

NextFull ==
  \/ MainFull
  \/ \E m \in Models : CallbackFull(m)

\* the event loop runs every chain that can run
SpecFull ==
  /\ Init
  /\ [][NextFull]_vars
  /\ WF_vars(MainFull)
  /\ \A m \in Models : WF_vars(CallbackFull(m))

(***************************************************************************)
(*                               Claims                                    *)
(***************************************************************************)

\* The edge set of the phase machine, pair by pair
C1_EdgeSet ==
  { <<"idle", "preflight">>, <<"preflight", "clarifying">>,
    <<"clarifying", "snapshotting">>, <<"snapshotting", "drafting">>,
    <<"drafting", "reviewing">>, <<"reviewing", "revising">>,
    <<"revising", "reviewing">>, <<"revising", "completed">>,
    <<"idle", "clarifying">>, <<"idle", "snapshotting">>,
    <<"idle", "drafting">>, <<"idle", "reviewing">>, <<"idle", "revising">>,
    <<"idle", "error">>, <<"preflight", "error">>, <<"clarifying", "error">>,
    <<"snapshotting", "error">>, <<"drafting", "error">>,
    <<"reviewing", "error">>, <<"revising", "error">>,
    <<"error", "idle">>, <<"error", "preflight">>, <<"error", "clarifying">>,
    <<"error", "snapshotting">>, <<"error", "drafting">>,
    <<"error", "reviewing">>, <<"error", "revising">> }

C2_Original ==
  ( /\ orPc = "idle"
    /\ orLast.op.name = "runFeedbackRound"
    /\ orLast.why = "roundFailed" )
  => LET r == orLast.op.round IN
     /\ orLast.op.failed # {}
     /\ orState.status = "error"
     /\ ~orState.rounds[r].bundle
     /\ orState.rounds[r].revised = 0
     /\ \A m \in orLast.op.failed :
          orState.rounds[r].consultants[m].status = "error"
     /\ ~orLast.op.reviseCalled
     /\ orState.latestSpecVersion = orLast.op.verBefore

\* the consultants of round r whose slot has the given status in state st
C3_Slots(st, r, status) ==
  {m \in Models : st.rounds[r].consultants[m].status = status}

\* C3: when resume() has loaded a state that is `reviewing` in round r with
\* some consultants complete and the others pending, the next run of the
\* review round calls exactly the pending consultants, for round r, and
\* none of the complete ones.
C3_Original ==
  ( /\ orPc = "idle"
    /\ orLast.op.name = "runFeedbackRound"
    /\ orLast.resumed.active
    /\ orLast.resumed.state.status = "reviewing"
    /\ orLast.resumed.state.currentRound >= 1
    /\ LET st == orLast.resumed.state
           r == st.currentRound
       IN /\ C3_Slots(st, r, "complete") # {}
          /\ C3_Slots(st, r, "pending") # {}
          /\ C3_Slots(st, r, "complete") \cup C3_Slots(st, r, "pending") = Models
    /\ orLast.why # "aborted" )
  => LET st == orLast.resumed.state
         r == st.currentRound
     IN /\ orLast.op.round = r
        /\ orLast.op.issued = {<<r, m>> : m \in C3_Slots(st, r, "pending")}

\* C4: the state.json of the directory refers only to files of the
\* directory: spec version latestSpecVersion, the requirements snapshot, the
\* response of every consultant whose slot is `complete`, the feedback
\* bundle and the revised spec of every round that records one.
C4_Original ==
  dFiles[StateFile] # Absent =>
    LET st == dFiles[StateFile].state IN
    /\ st.latestSpecVersion > 0 => dFiles[SpecFile(st.latestSpecVersion)] # Absent
    /\ st.snapshotPath => dFiles[SnapshotFile] # Absent
    /\ \A r \in 1..Len(st.rounds) :
         /\ \A m \in Models :
              st.rounds[r].consultants[m].status = "complete"
                => dFiles[ResponseFile(r, m)] # Absent
         /\ st.rounds[r].bundle => dFiles[BundleFile(r)] # Absent
         /\ st.rounds[r].revised > 0
              => dFiles[SpecFile(st.rounds[r].revised)] # Absent

\* C5: whenever status is `completed`, latestSpecVersion is numberOfRounds + 1
\* and every consultant's slot of every round is `complete`, rounds that
\* failed and were run again from `error` included.
C5_Original ==
  (Ready /\ orState.status = "completed") =>
    /\ orState.latestSpecVersion = orConfig.rounds + 1
    /\ \A r \in 1..Len(orState.rounds) : \A m \in Models :
         orState.rounds[r].consultants[m].status = "complete"

\* C6: with limit K >= 1, under every interleaving of completions, the tasks
\* started and not yet settled never number more than K.
C6_AtMostKActive == Cardinality(Active) <= lmK

C6_Witness ==
  /\ lmK = 2
  /\ lmN >= 4
  /\ Cardinality(Active) = 2
  /\ \E i \in Tasks : lmTask[i] = "failed"
  /\ \E i \in Tasks : lmTask[i] \in {"new", "queued"}

\* C7: the batch returns exactly N outcomes; outcome i is the one of input
\* task i and is tagged success or failure as that task ended.
C7_OutcomesInInputOrder ==
  lmPc = "returned" =>
    /\ Len(lmOut) = lmN
    /\ \A i \in 1..lmN :
         /\ lmOut[i].of = i
         /\ lmTask[i] \in {"ok", "failed"}
         /\ lmOut[i].tag = (IF lmTask[i] = "ok" THEN "success" ELSE "failure")

C7_Witness ==
  /\ lmPc = "returned"
  /\ lmN >= 3
  /\ lmK >= 2
  /\ lmOut[1].tag = "failure"
  /\ lmOut[2].tag = "success"

\* C8: a failing task neither cancels nor blocks the others: no task is
\* started twice, while a task still waits some task is running, and the
\* batch returns only when every one of the N tasks was started once and
\* has settled.
C8_FailureDoesNotBlock ==
  /\ \A i \in Tasks : lmStarts[i] <= 1
  /\ (lmPc = "running" /\ lmImpl = "runParallelWithErrors"
        /\ \E i \in 1..lmN : lmTask[i] = "new") => Active # {}
  /\ (\E i \in 1..lmN : lmTask[i] = "queued") => Active # {}
  /\ lmPc = "returned" =>
       \A i \in 1..lmN : lmStarts[i] = 1 /\ lmTask[i] \in {"ok", "failed"}

C8_Witness ==
  /\ lmPc = "returned"
  /\ lmN >= 3
  /\ lmK < lmN
  /\ \A i \in 1..lmN : lmTask[i] = "failed"

\* the run of C9: rate-limit faults on invocations 1..4, success on the 5th,
\* maxRetries = 5, the default maxDuration and classifier
C9_Scenario ==
  /\ rtOp = [fault |-> "rateLimit", fails |-> 4, always |-> FALSE]
  /\ rtOpts = [maxRetries |-> 5, maxDuration |-> DefaultMaxDuration,
               shouldRetry |-> "default"]
  /\ rtPc \in {"returned", "raised"}

\* C9 as stated: in that run withRetry invokes the operation exactly 5 times
\* and returns the 5th invocation's value.
C9_Original ==
  C9_Scenario =>
    /\ rtCalls = 5
    /\ rtResult = [kind |-> "value", fault |-> "none", of |-> 5]

\* C9, amended: the same, provided that at each of the four failures the
\* elapsed time is below maxDuration and elapsed time plus the backoff delay
\* computed there stays within maxDuration.
C9_ReturnsFifthWhenTimeFits ==
  (C9_Scenario /\ rtFits) =>
    /\ rtCalls = 5
    /\ rtPc = "returned"
    /\ rtResult = [kind |-> "value", fault |-> "none", of |-> 5]

C9_Witness ==
  /\ C9_Scenario
  /\ rtFits
  /\ rtCalls = 5
  /\ rtSleeps = 4
  /\ rtElapsed > 130000
  /\ rtPc = "returned"

\* the operation of C10: every invocation raises a transient fault
C10_Pre ==
  /\ rtOp.always
  /\ IsTransientError(rtOp.fault)
  /\ rtOpts.shouldRetry = "default"

\* C10: on an operation that always fails with a transient fault withRetry
\* terminates by raising; it invokes the operation at most maxRetries times,
\* never returns a value, and the error it raises carries the fault of the
\* last invocation.
C10_AlwaysFailingRaises ==
  /\ [](C10_Pre =>
          /\ rtCalls <= rtOpts.maxRetries
          /\ rtPc # "returned"
          /\ rtPc = "raised" =>
               /\ rtResult.kind \in {"maxRetries", "window", "timeLimit"}
               /\ rtResult.fault = rtOp.fault
               /\ rtResult.of = rtCalls)
  /\ (C10_Pre ~> rtPc = "raised")

C10_Witness ==
  /\ C10_Pre
  /\ rtOp.fault = "network"
  /\ rtOpts.maxRetries = 3
  /\ rtPc = "raised"
  /\ rtCalls = 3
  /\ rtResult = [kind |-> "maxRetries", fault |-> "network", of |-> 3]

\* the operation of C11: its first invocation raises a fault that is not to
\* be retried: the caller's predicate refuses every fault, or no predicate
\* is given and the message has none of the transient marks
C11_Pre ==
  /\ rtOp.always \/ rtOp.fails >= 1
  /\ \/ rtOpts.shouldRetry = "none"
     \/ rtOpts.shouldRetry = "default" /\ rtOp.fault = "fatal"

\* C11: when the operation fails with a fault that is not to be retried,
\* withRetry invokes it exactly once, never sleeps, never returns a value,
\* and raises the error of that invocation itself.
C11_NonTransientRaisedAtOnce ==
  C11_Pre =>
    /\ rtCalls <= 1
    /\ rtSleeps = 0
    /\ rtDelay = 0
    /\ rtPc \in {"calling", "raised"}
    /\ rtCalls = 1 =>
         /\ rtPc = "raised"
         /\ rtResult = [kind |-> "fault", fault |-> rtOp.fault, of |-> 1]

C11_Witness ==
  /\ rtOpts.shouldRetry = "none"
  /\ rtOpts.maxRetries = 5
  /\ rtOp = [fault |-> "network", fails |-> 2, always |-> FALSE]
  /\ rtPc = "raised"
  /\ rtCalls = 1
  /\ rtElapsed = 45000
  /\ rtResult = [kind |-> "fault", fault |-> "network", of |-> 1]

\* the operations that are phase procedures
C12_Procedures ==
  {"startClarification", "sendClarificationResponse", "generateSnapshot",
   "generateDraft", "runFeedbackRound"}

\* C12: when a phase procedure has failed with an invalid writer reply, a
\* storage fault or a provider fault that withRetry let through, status is
\* `error` and the state.json of the directory has status `error` with the
\* failing step recorded.
C12_Original ==
  ( /\ orPc = "idle"
    /\ orLast.outcome = "raised"
    /\ orLast.op.name \in C12_Procedures
    /\ orLast.why \in {"invalidReply", "storage", "gateway", "roundFailed"} )
  => /\ orState.status = "error"
     /\ dFiles[StateFile] # Absent
     /\ dFiles[StateFile].state.status = "error"
     /\ dFiles[StateFile].state.error.step # "none"

\* the artifact files of the directory: every file but state.json
C13_Artifacts == Files \ {StateFile}

\* C13: in a step taken while abort() is in force (aborted is set before and
\* after the step), the machine's state does not change and no artifact
\* file of the directory is created or replaced.
C13_Original ==
  [][ (orAborted /\ orAborted') =>
        /\ smState' = smState
        /\ \A f \in C13_Artifacts : dFiles'[f] = dFiles[f] ]_vars

\* the positions at which an operation is receiving a model's response: the
\* three kinds of stream and the writer's revise call
C14_Receiving == StreamPcs \cup {"rv_call"}

\* C14: when abort() has been called and the running operation is still
\* receiving a response, its next step ends it with an exception: it starts
\* no write, the directory, state and transcript stay as they are.  (The
\* death of the process apart.)
C14_AbortedResponseDropped ==
  [][ ( /\ orAborted
        /\ orPc \in C14_Receiving
        /\ orPc' # orPc
        /\ hCrashes' = hCrashes )
      => /\ orPc' = "idle"
         /\ orLast'.outcome = "raised"
         /\ orWrite' = NoWrite
         /\ dFiles' = dFiles
         /\ dPartials' = dPartials
         /\ orState' = orState
         /\ orTranscript' = orTranscript ]_vars

C14_Witness ==
  /\ orAborted
  /\ orPc = "idle"
  /\ orLast.op.name = "runFeedbackRound"
  /\ orLast.op.reviseCalled
  /\ orLast.why = "aborted"
  /\ orState.latestSpecVersion = orLast.op.verBefore
  /\ dFiles[SpecFile(orLast.op.verBefore + 1)] = Absent
  /\ orState.rounds[orLast.op.round].revised = 0
  /\ orState.rounds[orLast.op.round].bundle

\* C15: when runPreflight has returned a result: a failure comes from the
\* first model of [writer, consultants...] that was not reachable, no model
\* after it was tested, status is `error` and state.error, in memory and in
\* state.json, names that model with step preflight; a success means every
\* model was tested and status is not `error`.
C15_Original ==
  (orPc = "idle" /\ orLast.op.name = "runPreflight") =>
    /\ orLast.outcome = "failed" =>
         /\ orLast.op.pf < Len(UniqueModels)
         /\ orState.status = "error"
         /\ orState.error = [step |-> "preflight",
                             model |-> UniqueModels[orLast.op.pf + 1]]
         /\ dFiles[StateFile] = StateContent(orState)
    /\ orLast.outcome = "ok" =>
         /\ orLast.op.pf = Len(UniqueModels)
         /\ orState.status # "error"

\* the writes of state.json that are in flight: state.json.partial has been
\* written and the rename is still to come - the running operation's, and
\* each onConsultantComplete chain's
C16_StateWrites ==
  (IF orPc = "rename" /\ orWrite.file = StateFile THEN 1 ELSE 0)
    + Cardinality({m \in Models : cb[m].pc = "stateRename"})

\* C16: at most one write of state.json is in flight at any time.
C16_Original == C16_StateWrites <= 1

\* C17: what a reader finds at the final path is no file, or the complete
\* content that was there before, or the complete content of one of the
\* writes - whatever the interleaving and wherever the process dies.
C17_Original ==
  awFinal = NoInode \/ awInode[awFinal] \in Complete

\* C18: when resume() has ended, no `.partial` file is left anywhere in the
\* session directory, the feedback directory included; and what it loaded
\* is what the committed state.json and transcript hold.
C18_NoPartialAfterResume ==
  (orPc = "idle" /\ orLast.op.name = "resume") =>
    /\ \A f \in Files : dPartials[f] = Absent
    /\ orLast.outcome = "ok" =>
         /\ dFiles[StateFile] # Absent
         /\ orState = dFiles[StateFile].state
         /\ dFiles[TranscriptFile] # Absent
              => orTranscript = dFiles[TranscriptFile].transcript

C18_Witness ==
  /\ orPc = "idle"
  /\ orLast.op.name = "resume"
  /\ orLast.outcome = "ok"
  /\ orLast.op.cleaned = 2
  /\ orState.status = "reviewing"
  /\ \A f \in Files : dPartials[f] = Absent

\* C19: when resume() has returned, the machine's state is the status of
\* the committed state.json, its round counter is that file's currentRound,
\* and the transcript in memory is the committed transcript when there is
\* one (whether the status is terminal or not).
C19_ResumeReconstructs ==
  (orPc = "idle" /\ orLast.op.name = "resume" /\ orLast.outcome = "ok") =>
    /\ smState = dFiles[StateFile].state.status
    /\ smRound = dFiles[StateFile].state.currentRound
    /\ dFiles[TranscriptFile] # Absent
         => orTranscript = dFiles[TranscriptFile].transcript

C19_Witness ==
  /\ orPc = "idle"
  /\ orLast.op.name = "resume"
  /\ orLast.outcome = "ok"
  /\ dFiles[StateFile].state.status = "revising"
  /\ dFiles[StateFile].state.currentRound = 2
  /\ smState = "revising"
  /\ smRound = 2
  /\ Len(orTranscript.displayMessages) = 3
  /\ orTranscript = dFiles[TranscriptFile].transcript

\* C20: transition('error') succeeds from every phase, `completed` and
\* `error` included.
C20_Original ==
  (smCall.op = "transition" /\ smCall.to = "error") =>
    /\ smCall.ok
    /\ smState = "error"

\* C21: Once the phase is `completed`, no phase procedure and no transition
\* call changes any field of the workflow state (phase, currentRound, rounds,
\* latest artifact version, artifact references): every step of an
\* Orchestrator whose state.status is 'completed' leaves this.state as it is.
C21_Original ==
  [][(orState.status = "completed" /\ orConfig # NoConfig
        /\ orConfig' # NoConfig)
       => orState' = orState]_vars

\* C22: A committed artifact is never modified: once the snapshot, a spec
\* version or a round's feedback bundle has been written, no later step of the
\* same session directory (a retry from `error` or after a resume included)
\* puts other content at that path.
C22_Artifacts ==
  {SnapshotFile} \cup {SpecFile(v) : v \in 1..(RoundCap + 1)}
    \cup {BundleFile(r) : r \in 1..RoundCap}

C22_Original ==
  [][orOp'.name # "initialize"
       => \A f \in C22_Artifacts :
            dFiles[f] # Absent => dFiles'[f] = dFiles[f]]_vars

\* C23: latestArtifactVersion never decreases and no committed artifact is
\* deleted, across failures, aborts and retries from `error`: no step of a
\* session lowers state.latestSpecVersion, in memory or in state.json, or
\* removes a snapshot, spec version or bundle that is in the directory.
C23_Original ==
  [][orOp'.name # "initialize"
       => /\ (orConfig # NoConfig /\ orConfig' # NoConfig)
               => orState'.latestSpecVersion >= orState.latestSpecVersion
          /\ dFiles'[StateFile].state.latestSpecVersion
               >= dFiles[StateFile].state.latestSpecVersion
          /\ \A f \in C22_Artifacts :
               dFiles[f] # Absent => dFiles'[f] # Absent]_vars

C25_ReviseGetsOnlyThisRound ==
  \A op \in {orOp, orLast.op} :
    op.reviseCalled =>
      /\ op.revise.snapshot = dFiles[SnapshotFile].n
      /\ op.revise.specVersion = op.newVersion - 1
      /\ op.revise.specText = dFiles[SpecFile(op.newVersion - 1)].n
      /\ op.revise.round = op.round
      /\ op.revise.feedbacks = ConsultantModels
      /\ op.revise.transcript = NoTranscript

\* the revise call of round 2 has returned: a transcript and the bundle of
\* round 1 are there to be passed on
C25_Witness ==
  /\ orPc = "rv_saved"
  /\ orOp.round = 2
  /\ orOp.reviseCalled
  /\ orOp.revise.round = 2
  /\ orOp.revise.specVersion = 2
  /\ dFiles[BundleFile(1)] # Absent
  /\ orTranscript # NoTranscript

\* C26: parseClarificationResponse strips a surrounding markdown code fence
\* before parsing; a reply whose payload lacks a boolean ready field or a
\* non-empty string message field raises an error in every case and is never
\* returned as a reply with ready = false.
C26_FenceOpens ==
  {<<Tok("fence"), Tok("nl")>>,
   <<Tok("fence"), Tok("json"), Tok("nl")>>,
   <<Tok("fence"), Tok("JSON"), Tok("nl")>>,
   <<Tok("fence"), Tok("tag"), Tok("nl")>>}
C26_FenceCloses == {<<Tok("nl"), Tok("fence")>>}
C26_Valid ==
  {p \in Payloads : p.k = "object" /\ p.ready \in {"true", "false"}
                      /\ p.message \in {"text", "padded"}}
C26_Payload == CHOOSE p \in Payloads : \E i \in 1..Len(prContent) : prContent[i] = p

C26_Original ==
  (prOut # NoOut /\ prContent # <<>>) =>
    /\ C26_Payload \notin C26_Valid => prOut.tag = "raised"
    /\ (/\ C26_Payload \in C26_Valid
        /\ \E open \in C26_FenceOpens, close \in C26_FenceCloses :
             prContent = open \o <<C26_Payload>> \o close)
         => prOut = [tag |-> "ok", ready |-> C26_Payload.ready = "true",
                     message |-> "text"]

\* C26, amended: parseClarificationResponse strips a surrounding code fence
\* that is bare or carries the info string json (in any letter case), closed
\* or not, before parsing, and then returns the payload's ready and trimmed
\* message; a reply whose payload lacks a boolean ready field or a string
\* message field with text in it raises an error in every case (so does a
\* payload in a fence with another info string) and is never returned as a
\* reply with ready = false.
C26_JsonFenceOpens ==
  {<<Tok("fence"), Tok("nl")>>,
   <<Tok("fence"), Tok("json"), Tok("nl")>>,
   <<Tok("fence"), Tok("JSON"), Tok("nl")>>}
C26_JsonFenceCloses ==
  {<<>>, <<Tok("nl"), Tok("fence")>>, <<Tok("nl"), Tok("fence"), Tok("nl")>>}

C26_StripsJsonFenceAndRaises ==
  (prOut # NoOut /\ prContent # <<>>) =>
    /\ C26_Payload \notin C26_Valid => prOut.tag = "raised"
    /\ (/\ C26_Payload \in C26_Valid
        /\ \E open \in C26_JsonFenceOpens, close \in C26_JsonFenceCloses :
             prContent = open \o <<C26_Payload>> \o close)
         => prOut = [tag |-> "ok", ready |-> C26_Payload.ready = "true",
                     message |-> "text"]
    /\ (\E suf \in Suffixes :
          prContent = <<Tok("fence"), Tok("tag"), Tok("nl")>>
                        \o <<C26_Payload>> \o suf)
         => prOut.tag = "raised"

\* a reply in a json fence whose object has a message and no ready field:
\* the fence is stripped, the JSON parses, and the validation throws
C26_Witness ==
  /\ prContent = <<Tok("fence"), Tok("json"), Tok("nl"), Obj("absent", "text"),
                   Tok("nl"), Tok("fence")>>
  /\ prOut = Raised("ready")

\* C27: After every completed clarification exchange (the writer's first
\* reply, and each pair of user reply and writer reply), the transcript file
\* holds the in-memory transcript, and it does so by the time the exchange is
\* reported complete to the caller.
C27_Exchanges == {"startClarification", "sendClarificationResponse"}

C27_TranscriptPersisted ==
  (orLast.op.name \in C27_Exchanges /\ orLast.outcome = "ok") =>
    /\ orTranscript # NoTranscript
    /\ dFiles[TranscriptFile] # Absent
    /\ dFiles[TranscriptFile].transcript = orTranscript
    /\ dPartials[TranscriptFile] = Absent

\* the second exchange has just been reported complete
C27_Witness ==
  /\ orLast.op.name = "sendClarificationResponse"
  /\ orLast.outcome = "ok"
  /\ orPc = "idle"
  /\ orTranscript.displayMessages = <<"assistant", "user", "assistant">>
  /\ dFiles[TranscriptFile].transcript = orTranscript

\* C28: For every round, once its review step has finished: the round is
\* treated as successful (bundle, then revision) if and only if every
\* consultant slot of the round is complete, and as failed if and only if
\* some slot is in error; for any configured consultant list, one that names
\* a model more than once included.
C28_Original ==
  rdResult # "running" =>
    /\ rdResult = "succeeded" <=> IsRoundComplete(rdSlots)
    /\ rdResult = "failed" <=> HasRoundError(rdSlots)

\* C29: The consultant calls issued when review round r runs are exactly the
\* configured models whose slot in rounds[r] is not complete: when round r
\* has failed with some slots complete and some in error and the round is run
\* again from `error`, the calls are for round r, for every model whose slot
\* is pending or in error, and for no model whose slot is complete.
C29_Original ==
  ( /\ orPc = "idle"
    /\ orLast.op.name = "runFeedbackRound"
    /\ orLast.op.from = "error"
    /\ orLast.op.pending # <<>>
    /\ orLast.op.round >= 2
    /\ Len(orState.rounds) >= orLast.op.round - 1 )
  => LET r == orLast.op.round - 1
     IN orLast.op.issued =
          {<<r, m>> : m \in {x \in Models :
                               orState.rounds[r].consultants[x].status
                                 # "complete"}}

\* C30: Under fairness, when every gateway call succeeds and the writer's
\* first clarification reply signals ready, runFullWorkflow eventually
\* reaches `completed`, having run preflight, clarification, snapshot, draft
\* and the rounds 1..R in that order.
C30_Original ==
  <>(/\ orState.status = "completed"
     /\ orState.currentRound = orConfig.rounds
     /\ orState.latestSpecVersion = orConfig.rounds + 1
     /\ orState.snapshotPath
     /\ orState.transcriptPath)

\* the state each public phase procedure asks the machine for: runPreflight,
\* startClarification, generateSnapshot, generateDraft, runFeedbackRound
\* (generateRevision and completeSession are private and called by
\* runFeedbackRound only)
ProcedureTransitions ==
  {"preflight", "clarifying", "snapshotting", "drafting", "reviewing"}

\* C31: A session interrupted while its persisted phase is non-terminal can,
\* after resume(), be driven on by the phase procedures: there is no
\* persisted non-terminal phase from which every phase procedure is rejected.
C31_Original ==
  (/\ orPc = "idle"
   /\ orLast.op.name = "resume"
   /\ orLast.outcome = "ok"
   /\ dFiles[StateFile].state.status
        \in {"preflight", "clarifying", "snapshotting", "drafting",
             "reviewing", "revising"})
    => \E to \in ProcedureTransitions : CanTransition(smState, to)

\* C32: Whenever the phase is `completed` (in WorkflowState, in the machine
\* or in state.json), the final artifact exists and holds the text of the
\* specification of version latestSpecVersion; hence it was written before
\* the phase became `completed`.
C32_FinalIsLatest ==
  /\ (orConfig # NoConfig
        /\ (orState.status = "completed" \/ smState = "completed"))
       => /\ dFiles[FinalFile] # Absent
          /\ dFiles[FinalFile] = dFiles[SpecFile(orState.latestSpecVersion)]
          /\ dFiles[FinalFile].version = orState.latestSpecVersion
  /\ dFiles[StateFile].state.status = "completed"
       => LET v == dFiles[StateFile].state.latestSpecVersion
          IN /\ dFiles[FinalFile] # Absent
             /\ dFiles[FinalFile] = dFiles[SpecFile(v)]
             /\ dFiles[FinalFile].version = v

\* a session of one round is completed: the final artifact is version 2
C32_Witness ==
  /\ orState.status = "completed"
  /\ smState = "completed"
  /\ orPc = "idle"
  /\ orLast.op.name = "runFeedbackRound"
  /\ orLast.outcome = "ok"
  /\ orConfig.rounds = 1
  /\ orState.latestSpecVersion = 2
  /\ dFiles[FinalFile].version = 2
  /\ dFiles[StateFile].state.status = "completed"

\* C33: After resume() (and after every other operation) WorkflowState's
\* status equals the state of the machine, and every later successful
\* transition sets WorkflowState's status to the new state and is told to
\* exactly one listener (one state_change event).
C33_Original ==
  [][/\ (orLast'.op.name = "resume" /\ orLast'.outcome = "ok")
          => orState'.status = smState'
     /\ (smCall'.op = "transition" /\ smState' # smState)
          => /\ orState'.status = smState'
             /\ Len(smNotified') = 1]_vars

\* C34: A phase procedure invoked in a phase from which its transition is
\* illegal raises the invalid-transition error before any gateway call and
\* leaves WorkflowState, the machine's state and the session directory as
\* they were.
C34_Original ==
  [][(orPc = "idle" /\ orPc' = "idle" /\ orLast'.outcome = "raised"
        /\ orLast'.why = "invalidTransition")
       => /\ orState' = orState
          /\ smState' = smState
          /\ dFiles' = dFiles
          /\ orLast'.op.issued = {}
          /\ ~orLast'.op.reviseCalled]_vars

\* C35: When runFeedbackRound has returned or raised after calling its
\* consultants, no onConsultantComplete chain of the round is still pending
\* (every slot update and state write it started is done) and state.json
\* holds the in-memory WorkflowState.
C35_Original ==
  (/\ orPc = "idle"
   /\ orLast.op.name = "runFeedbackRound"
   /\ orLast.op.issued # {})
    => /\ Quiet
       /\ dFiles[StateFile] = StateContent(orState)

\* C36: In ConcurrencyLimiter with limit K >= 1 a queued task never waits
\* while a slot is free: after every step, if the queue is not empty exactly
\* K tasks are running; the queue holds the waiting tasks in submission
\* order; and each completion, success or failure, frees its slot and starts
\* the task at the head of the queue.
C36_NoIdleSlot ==
  [][lmImpl = "ConcurrencyLimiter" =>
       /\ lmQueue' # <<>> =>
            /\ lmRunning' = lmK
            /\ Cardinality({i \in Tasks : lmTask'[i] = "running"}) = lmK
       /\ \A j \in 1..Len(lmQueue') :
            /\ lmTask'[lmQueue'[j]] = "queued"
            /\ j > 1 => lmQueue'[j - 1] < lmQueue'[j]
       /\ \A i \in Tasks :
            (lmTask[i] = "running" /\ lmTask'[i] \in {"ok", "failed"}
               /\ lmQueue # <<>>)
              => /\ lmTask'[Head(lmQueue)] = "running"
                 /\ lmStarts'[Head(lmQueue)] = 1
                 /\ lmQueue' = Tail(lmQueue)
                 /\ lmRunning' = lmRunning]_vars

\* limit 2, four tasks: task 1 has failed, task 3 was started in its place
\* while task 2 runs, and task 4 still waits
C36_Witness ==
  /\ lmImpl = "ConcurrencyLimiter"
  /\ lmK = 2
  /\ lmTask = <<"failed", "running", "running", "queued">>
  /\ lmQueue = <<4>>
  /\ lmRunning = 2

\* C37: withRetry never starts a backoff delay longer than what is left of
\* maxDuration, and never starts a delay (hence a further attempt) when the
\* elapsed time measured at the failure has reached maxDuration: in both
\* cases it raises an error that carries the last fault.
C37_BackoffWithinBudget ==
  /\ rtPc = "sleeping" =>
       /\ rtElapsed < rtOpts.maxDuration
       /\ rtDelay <= rtOpts.maxDuration - rtElapsed
  /\ (rtPc \in {"sleeping", "raised"} /\ rtElapsed >= rtOpts.maxDuration) =>
       /\ rtPc = "raised"
       /\ rtResult.kind \in {"fault", "maxRetries", "window"}
  /\ rtPc = "raised" =>
       /\ rtResult.fault = rtLastError.fault
       /\ rtResult.of = rtLastError.of
       /\ rtResult.of = rtCalls
       /\ rtResult.kind = "window" => rtElapsed >= rtOpts.maxDuration
       /\ rtResult.kind = "timeLimit" => rtElapsed < rtOpts.maxDuration

\* after three backoffs the fourth failure leaves less time than the next
\* delay needs: the time-limit error is raised for the fourth fault
C37_Witness ==
  /\ rtPc = "raised"
  /\ rtResult.kind = "timeLimit"
  /\ rtSleeps = 3
  /\ rtCalls = 4
  /\ rtResult.of = 4
  /\ rtOpts.maxDuration = DefaultMaxDuration
  /\ rtElapsed < rtOpts.maxDuration

\* C38: In every state of a session 0 <= currentRound <= numberOfRounds and
\* the rounds recorded are exactly 1..currentRound, in memory and in
\* state.json: no review round beyond the configured number is started.
C38_Original ==
  /\ Ready =>
       /\ orState.currentRound \in 0..orConfig.rounds
       /\ Len(orState.rounds) = orState.currentRound
  /\ dConfig # NoConfig =>
       /\ dFiles[StateFile].state.currentRound \in 0..dConfig.rounds
       /\ Len(dFiles[StateFile].state.rounds)
            = dFiles[StateFile].state.currentRound

\* C39: When a clarification exchange raises (the stream fails, the reply is
\* not a valid reply, or the session was aborted before the reply was taken),
\* this.transcript and transcript.json are what they were when the exchange
\* began: the user's message of the exchange is in neither, and the
\* machine-facing list is still the system prompt and the idea followed by
\* the display turns in the same order.  (After a failed startClarification
\* there is no transcript, or the one an earlier process had saved.)
C39_FailedExchangeLeavesTranscript ==
  (/\ orPc = "idle"
   /\ orLast.outcome = "raised"
   /\ orLast.why \in {"gateway", "invalidReply", "aborted"})
    => /\ orLast.op.name = "sendClarificationResponse"
            => /\ orLast.op.withUser = AddUserMessage(orTranscript)
               /\ orTranscript # orLast.op.withUser
               /\ orTranscript.displayMessages[
                    Len(orTranscript.displayMessages)] = "assistant"
               /\ orTranscript.apiMessages
                    = <<"system", "user">> \o orTranscript.displayMessages
               /\ dFiles[TranscriptFile] = TranscriptContent(orTranscript)
               /\ dPartials[TranscriptFile] = Absent
       /\ orLast.op.name = "startClarification"
            => /\ dPartials[TranscriptFile] = Absent
               /\ IF orTranscript = NoTranscript
                    THEN dFiles[TranscriptFile] = Absent
                    ELSE /\ dFiles[TranscriptFile]
                              = TranscriptContent(orTranscript)
                         /\ orTranscript.apiMessages
                              = <<"system", "user">>
                                  \o orTranscript.displayMessages
                         /\ orTranscript.displayMessages[
                              Len(orTranscript.displayMessages)] = "assistant"

\* the writer's reply to the user's answer was not a valid reply: the
\* transcript still ends with the writer's first message
C39_Witness ==
  /\ orPc = "idle"
  /\ orLast.op.name = "sendClarificationResponse"
  /\ orLast.outcome = "raised"
  /\ orLast.why = "invalidReply"
  /\ orLast.op.withUser.displayMessages = <<"assistant", "user">>
  /\ orTranscript.displayMessages = <<"assistant">>
  /\ dFiles[TranscriptFile].transcript = orTranscript

\* C40: In every state of a session that began as a new session, a phase of
\* reviewing, revising or completed (in WorkflowState, in the machine or in
\* state.json) implies that the requirements snapshot is committed and
\* latestSpecVersion >= 1 with that version's file committed, and the phase
\* drafting implies that the snapshot is committed.
C40_ReviewHasSnapshotAndDraft ==
  /\ Ready =>
       \A phase \in {orState.status, smState} :
         /\ phase \in {"reviewing", "revising", "completed"} =>
              /\ dFiles[SnapshotFile] # Absent
              /\ orState.latestSpecVersion >= 1
              /\ dFiles[SpecFile(orState.latestSpecVersion)] # Absent
         /\ phase = "drafting" => dFiles[SnapshotFile] # Absent
  /\ LET st == dFiles[StateFile].state IN
       /\ st.status \in {"reviewing", "revising", "completed"} =>
            /\ dFiles[SnapshotFile] # Absent
            /\ st.latestSpecVersion >= 1
            /\ dFiles[SpecFile(st.latestSpecVersion)] # Absent
       /\ st.status = "drafting" => dFiles[SnapshotFile] # Absent

\* after a failed preflight the caller asked for a review round and for a
\* draft at once: both were refused for want of a snapshot or transcript
C40_Witness ==
  /\ orPc = "idle"
  /\ orState.status = "error"
  /\ orState.error.step = "preflight"
  /\ orLast.op.name = "runFeedbackRound"
  /\ orLast.outcome = "raised"
  /\ orLast.why = "noSnapshot"
  /\ smState = "error"
  /\ dFiles[SnapshotFile] = Absent

====
